---- MODULE Spec2Model ----
(***************************************************************************)
(* Model of nsefeed's session layer (src/nsefeed/session.py): the          *)
(* handshake, the rate limiter and the retry loop of NSESession.get /      *)
(* post / download_file.                                                   *)
(*                                                                         *)
(* Time is an integer clock in ticks of 100 microseconds, so that every    *)
(* delay the code computes (0.35 s, 1.0 s * 1.5^n, 60 s, 300 s) is exact.  *)
(* Computation is instantaneous; time passes only while a thread sleeps,   *)
(* waits for a response or pauses between two calls (action Tick).         *)
(***************************************************************************)
EXTENDS Integers, Sequences, FiniteSets, Bags, TLC

\* ------------------------------------------------------------ constants
\* constants.py / config.py, durations in ticks of 100 microseconds
MAX_RETRIES == 3
INITIAL_RETRY_DELAY == 10000
\* RETRY_BACKOFF_FACTOR = 1.5 = BACKOFF_NUM / BACKOFF_DEN
BACKOFF_NUM == 3
BACKOFF_DEN == 2
MIN_REQUEST_DELAY == 3500
REQUEST_TIMEOUT == 300000
SESSION_REFRESH_INTERVAL == 3000000
\* response.headers.get("Retry-After", 60)
DEFAULT_RETRY_AFTER == 600000
\* len(USER_AGENTS)
NUM_USER_AGENTS == 5

\* ------------------------------------------------------------ bounds
\* threads of the concurrent rate-limiter specification
NumThreads == 2
\* _rate_limit calls made in all in the rate-limiter specification
MaxPasses == 4
\* time one HTTP exchange takes when it does not time out (0.1 s)
ReqTime == 1000
\* get_instance and reset_instance calls made in all in the singleton
\* specification
MaxOps == 4
\* calendar days of the scraper specification (they are 1..NumDays)
NumDays == 4

Threads == 1..NumThreads
\* the single caller of the sequential specification
Main == 1
NoThread == 0
\* time.time() when the session object was constructed (1000 s)
StartTime == 1000 * 10000
\* age of the handshake when the call under study begins: none, 250 s, just
\* over 300 s
IdleGaps == {0, SESSION_REFRESH_INTERVAL - 500000, SESSION_REFRESH_INTERVAL + 1}
\* pauses of a thread between two _rate_limit calls: none (back to back), or
\* long enough for the delay to have elapsed
ShortGaps == {0, MIN_REQUEST_DELAY + ReqTime}

Methods == {"get", "post", "download_file"}
\* status codes a response may carry
Statuses == {200, 304, 401, 403, 404, 429, 500}
\* Retry-After header of a 429 response: absent, delta-seconds, or an HTTP-date
RetryAfterHeaders == {"absent", "2", "0", "-1", "Wed, 21 Oct 2015 07:28:00 GMT"}

VARIABLES
    now,                  \* time.time()
    session,              \* self._session: "open" or "none"
    cookies,              \* self._cookies: <<>> or <<time of the handshake that set them>>
    session_created_time, \* self._session_created_time
    last_request_time,    \* self._last_request_time
    request_lock,         \* holder of self._request_lock, or NoThread
    ua_index,             \* self._ua_index
    pc,                   \* where each thread is
    wake,                 \* when a blocked thread goes on
    method,               \* the method the thread is in
    retry_count,          \* local retry_count of get/post
    last_exception,       \* local last_exception of get/post
    seen_last,            \* self._last_request_time as read in _rate_limit
    result,               \* what the finished call returned or raised
    calls,                \* calls the thread has started
    sends,                \* target requests dispatched by the current call
    passes,               \* passes through _rate_limit by the current call
    prev,                 \* outcome of the call's latest attempt
    gap,                  \* what the call did since its latest attempt's outcome
    hs_failed,            \* a handshake failed during the current call
    sent_at,              \* when the call's latest target request was dispatched
    prev_sent,            \* when the thread's target request before that one was dispatched
    rl_log,               \* times of all passes through _rate_limit
    ua_read,              \* self._ua_index as loaded by _get_headers, per thread
    instance,             \* NSESession._instance: an object, or NoObject for None
    cls_lock,             \* holder of NSESession._lock, or NoThread
    objects,              \* NSESession objects created so far (they are 1..objects)
    obj_init,             \* _initialized of each object: "absent", "false", "true"
    obj_session,          \* _session of each object: "absent", "open", "none"
    obj_hs,               \* whether each object records a handshake (_session_created_time # 0)
    ref,                  \* the object __new__ returned to the thread
    ops,                  \* get_instance and reset_instance calls started
    resets,               \* reset_instance calls that ran
    overlap,              \* a reset_instance call has overlapped a get_instance call
    got_log,              \* <<resets, object>> for every get_instance call that returned
    cache,                \* table ohlc_data: the <<symbol, trade_date>> keys that have a row
    fetch_pc,             \* where the scraper is: "idle", "walk", "done"
    fetch_op,             \* the call in progress: method, symbols, validated range
    current_date,         \* local current_date of the walk
    all_data,             \* rows accumulated per symbol, as the days they belong to
    errors,               \* local errors of fetch_for_symbol
    fetch_result,         \* what the finished call returned or raised
    day_fetches,          \* days for which the current call has called fetch_for_date
    yielded,              \* per requested symbol, the days whose snapshot held a row of it
    phase,                \* "first" call of the run or its "second"
    prev_fetch,           \* the call made before the current one, and its result
    cache_before,         \* the cache when the current call began
    cache_fault,          \* the cache operation of the current call that failed: "none", "read", "write"
    fd_pc,                \* where a direct fetch_for_date call is: "idle", "new", "old", "done"
    fd_date,              \* its trade_date
    fd_requests,          \* the formats whose URL it has requested, in order
    fd_new,               \* what its new-format download ended with
    fd_old,               \* what its old-format download ended with
    fd_result,            \* what it returned or raised
    fd_calls,             \* direct fetch_for_date calls started
    ohlc_data,            \* table ohlc_data as the connection sees it
    index_data,           \* table index_data as the connection sees it
    metadata_cache,       \* table metadata_cache as the connection sees it
    committed,            \* the three tables as of the last commit
    latest,               \* per (symbol, trade_date), the values the latest set_ohlc wrote there
    stored,               \* per metadata key, the value the latest set_metadata was given
    cache_ops,            \* cache operations called
    cache_result,         \* the latest cache operation and what it returned or raised
    vd_start,             \* start_date a validate_date_range call was given
    vd_end,               \* its end_date
    vd_result,            \* what it returned or raised
    vd_calls,             \* validate_date_range calls made
    gm_pc,                \* where the thread calling get_metadata is: "idle", "read", "done"
    gm_key,               \* the key it asks for
    gm_row,               \* the row its SELECT fetched: <<>> or <<row>>
    sr_cache,             \* per day, the series of the snapshot row the cached row of the symbol came from, or "none"
    sr_phase,             \* fetch_for_symbol calls with a series filter so far: "none", "first", "second"
    sr_result,            \* what the latest of them returned or raised
    made,                 \* per object, the requests sessions _init_session has created for it
    shaken                \* per object, the handshakes _init_session has performed for it

shared == <<session, cookies, session_created_time, last_request_time,
            request_lock, ua_index>>
locals == <<method, retry_count, last_exception, seen_last, result, calls>>
history == <<sends, passes, prev, gap, hs_failed, sent_at, prev_sent, rl_log>>
\* loaded by _get_headers only; every other step leaves it alone
registry == <<instance, cls_lock, objects, obj_init, obj_session, obj_hs, ref,
              ops, resets, overlap, got_log>>
scraper == <<cache, fetch_pc, fetch_op, current_date, all_data, errors,
             fetch_result, day_fetches, yielded, phase, prev_fetch, cache_before>>
dateop == <<fd_pc, fd_date, fd_requests, fd_new, fd_old, fd_result, fd_calls>>
store == <<ohlc_data, index_data, metadata_cache, committed, latest, stored,
           cache_ops, cache_result>>
valid == <<vd_start, vd_end, vd_result, vd_calls>>
reader == <<gm_pc, gm_key, gm_row>>
\* state of the specifications of validate_date_range, of the metadata race
\* and of the series filter, and the construction history of the singleton
filtered == <<sr_cache, sr_phase, sr_result>>
built == <<made, shaken>>
rest == <<valid, reader, filtered, built>>
\* state of the specifications of the cache and of fetch_for_date
extra == <<cache_fault, dateop, store, rest>>
apart == <<ua_read, registry, scraper, extra>>
vars == <<now, pc, wake, shared, locals, history, apart>>

\* ------------------------------------------------------------ helpers
RECURSIVE Pow(_, _)
Pow(b, n) == IF n = 0 THEN 1 ELSE b * Pow(b, n - 1)

NoOutcome == [kind |-> "none", status |-> 0, retry_after |-> "absent"]
NoResult == [kind |-> "none", status |-> 0, message |-> "", details |-> ""]
NoGap == [hs |-> 0, sleeps |-> <<>>]

\* requests.Response.ok: raise_for_status raises for 400 <= status < 600
ResponseOk(status) == ~(400 <= status /\ status < 600)

\* float(text) succeeds: the text is a number, not an HTTP-date
FloatOk(h) == h \in {"absent", "2", "0", "-1"}

\* float(response.headers.get("Retry-After", 60)), in ticks
ParseRetryAfter(h) ==
    CASE h = "absent" -> DEFAULT_RETRY_AFTER
      [] h = "2" -> 20000
      [] h = "0" -> 0
      [] h = "-1" -> 0 - 10000

\* (mutant) the exponent is the number of failures before the present one
BackoffDelayOfEarlier(rc) ==
    (INITIAL_RETRY_DELAY * Pow(BACKOFF_NUM, rc - 1)) \div Pow(BACKOFF_DEN, rc - 1)

\* INITIAL_RETRY_DELAY * (RETRY_BACKOFF_FACTOR ** retry_count)
BackoffDelay(rc) == (INITIAL_RETRY_DELAY * Pow(BACKOFF_NUM, rc)) \div Pow(BACKOFF_DEN, rc)

\* timeout of the request: REQUEST_TIMEOUT, doubled by download_file
TimeoutOf(m) == IF m = "download_file" THEN REQUEST_TIMEOUT * 2 ELSE REQUEST_TIMEOUT

\* _should_refresh_session
should_refresh_session ==
    \/ session_created_time = 0
    \/ now - session_created_time > SESSION_REFRESH_INTERVAL

\* (mutant) the loop admits one attempt more
LoopContinuesOneMore(rc) == rc <= MAX_RETRIES + 1

\* while retry_count <= MAX_RETRIES
LoopContinues(rc) == rc <= MAX_RETRIES

\* (mutant) 401/403 handled like 429: no handshake, a sleep instead
ClassifyAuthAsRateLimit(status) ==
    CASE status = 401 \/ status = 403 \/ status = 429 -> "rate_limit"
      [] status = 404 -> "not_found"
      [] OTHER -> "http_error"

\* (mutant) 5xx handled like 429: the request is retried
ClassifyServerErrorAsRateLimit(status) ==
    CASE status = 401 \/ status = 403 -> "auth"
      [] status = 429 \/ status >= 500 -> "rate_limit"
      [] status = 404 -> "not_found"
      [] OTHER -> "http_error"

\* the branch _handle_response_error takes for a status that is not ok
Classify(status) ==
    CASE status = 401 \/ status = 403 -> "auth"
      [] status = 429 -> "rate_limit"
      [] status = 404 -> "not_found"
      [] OTHER -> "http_error"

\* (mutant) the rate limiter does not wait
SleepTimeZero(elapsed) == 0

\* sleep_time of _rate_limit
SleepTime(elapsed) == MIN_REQUEST_DELAY - elapsed

\* (mutant) _rate_limit runs without the lock
LockIgnored == TRUE

\* with self._request_lock: the lock can be taken
LockFree == request_lock = NoThread

\* str(last_exception) if last_exception else None
DetailsOf(exc) == IF exc = "none" THEN "None" ELSE exc

Raise(kind, status, message, details) ==
    [kind |-> kind, status |-> status, message |-> message, details |-> details]

InFlight(t) == pc[t] \in {"await", "timing_out"}
Blocked(t) == pc[t] \in {"idle", "refresh", "rl_sleep", "await", "timing_out",
                         "hs_err", "sleep_ra", "sleep_bo"}

\* no object: None
NoObject == 0
\* the objects the singleton specification can create
Objects == 1..MaxOps

\* the class before the first get_instance(): nothing registered
NoRegistry ==
    /\ instance = NoObject
    /\ cls_lock = NoThread
    /\ objects = 0
    /\ obj_init = [o \in Objects |-> "absent"]
    /\ obj_session = [o \in Objects |-> "absent"]
    /\ obj_hs = [o \in Objects |-> FALSE]
    /\ ref = [t \in Threads |-> NoObject]
    /\ ops = 0
    /\ resets = 0
    /\ overlap = FALSE
    /\ got_log = {}

\* the class once the session object of the other specifications has been
\* constructed: object 1 is registered, initialised and open
InitRegistry ==
    /\ instance = 1
    /\ cls_lock = NoThread
    /\ objects = 1
    /\ obj_init = [o \in Objects |-> IF o = 1 THEN "true" ELSE "absent"]
    /\ obj_session = [o \in Objects |-> IF o = 1 THEN "open" ELSE "absent"]
    /\ obj_hs = [o \in Objects |-> o = 1]
    /\ ref = [t \in Threads |-> 1]
    /\ ops = 0
    /\ resets = 0
    /\ overlap = FALSE
    /\ got_log = {}

\* ------------------------------------------------------------ scraper data
Days == 1..NumDays
\* date.weekday() of day 1: a Wednesday, so that day 4 is a Saturday
FirstWeekday == 2
\* date.today(): the last day of the calendar
Today == NumDays
\* min_date of validate_date_range, date(1995, 1, 1): the first day
MinDate == 1
\* pandas NaT, the missing date
NaT == 0
Symbols == {"A", "B"}
\* the symbol fetch_for_symbol is called with; the other symbol stands for
\* the rest of a snapshot
Requested == {"A"}
\* symbol lists passed to fetch_bulk
BulkLists == {<<"A", "B">>}
\* BhavCopyScraper(use_cache=True)
use_cache == TRUE

\* symbols as callers may write them: in lower case, with blanks around
RawSymbols == {"A", "B", "a", "b", " a", "b ", " A", "B "}
\* str.strip
strip(x) ==
    CASE x = " a" -> "a"
      [] x = "b " -> "b"
      [] x = " A" -> "A"
      [] x = "B " -> "B"
      [] OTHER -> x
\* str.upper
upper(x) ==
    CASE x = "a" -> "A"
      [] x = "b" -> "B"
      [] x = " a" -> " A"
      [] x = "b " -> "B "
      [] OTHER -> x
\* [s.strip().upper() for s in symbols]
Normalize(q) == [i \in 1..Len(q) |-> upper(strip(q[i]))]

weekday(d) == (FirstWeekday + d - 1) % 7

\* (mutant) only Sunday is closed
is_trading_day_but_sunday(d) == weekday(d) < 6

\* utils.is_trading_day
is_trading_day(d) == weekday(d) < 5

SeqToSet(q) == {q[i] : i \in 1..Len(q)}

\* the elements of a set of days in ascending order
RECURSIVE SortedSeq(_)
SortedSeq(S) ==
    IF S = {} THEN <<>>
    ELSE LET m == CHOOSE x \in S : \A y \in S : x <= y IN <<m>> \o SortedSeq(S \ {m})

\* columns of a standardized bhav copy table (the date is its index)
NetColumns == {"symbol", "series", "open", "high", "low", "close", "volume",
               "value", "trades", "prev_close", "last", "isin"}
\* columns get_ohlc selects (the date is the index)
CacheColumns == {"open", "high", "low", "close", "volume", "value", "trades"}

\* None, or a table without rows
NoFrame == [columns |-> {}, rows |-> <<>>]

\* rows of the given days under the given columns; each row carries its
\* index date and the day of the snapshot its values come from
Frame(cols, days, dated) ==
    [columns |-> cols,
     rows |-> [i \in 1..Len(days) |-> [date |-> IF dated THEN days[i] ELSE NaT,
                                       source |-> days[i]]]]

\* a sequence of days sorted in ascending order, repetitions kept
RECURSIVE sort_index(_)
sort_index(q) ==
    IF q = <<>> THEN <<>>
    ELSE LET m == CHOOSE x \in SeqToSet(q) : \A y \in SeqToSet(q) : x <= y
             i == CHOOSE k \in 1..Len(q) : q[k] = m /\ \A j \in 1..(k - 1) : q[j] # m
         IN <<m>> \o sort_index(SubSeq(q, 1, i - 1) \o SubSeq(q, i + 1, Len(q)))

\* pd.concat(all_data) followed by standardize_dataframe: the date becomes
\* the index and the rows are sorted by it
standardize_dataframe(days) == Frame(NetColumns, sort_index(days), TRUE)

\* NSECache.get_ohlc: the rows of the symbol in [start, end], ascending, or
\* None.  The frame is built from dicts keyed "trade_date" under the column
\* list ["date", "open", ...]: the values are kept, the date column is all
\* missing and becomes an index of NaT.
get_ohlc(sym, start, end) ==
    LET ds == {d \in Days : <<sym, d>> \in cache /\ start <= d /\ d <= end} IN
    IF ds = {} THEN NoFrame ELSE Frame(CacheColumns, SortedSeq(ds), FALSE)

\* NSECache.get_cached_date_range: (MIN(trade_date), MAX(trade_date)) or None
get_cached_date_range(sym) ==
    LET ds == {d \in Days : <<sym, d>> \in cache} IN
    IF ds = {} THEN <<>>
    ELSE <<CHOOSE x \in ds : \A y \in ds : x <= y, CHOOSE x \in ds : \A y \in ds : x >= y>>

\* NSECache.set_ohlc: INSERT OR REPLACE of one row per index date
set_ohlc(c, sym, frame) ==
    c \cup {<<sym, frame.rows[i].date>> : i \in 1..Len(frame.rows)}

\* utils.validate_date_range with allow_future = False
validate_date_range(s, e) ==
    LET s1 == IF s > e THEN e ELSE s
        e1 == IF s > e THEN s ELSE e
    IN IF s1 > Today
       THEN [ok |-> FALSE, start |-> s1, end |-> e1]
       ELSE [ok |-> TRUE,
             start |-> IF s1 < MinDate THEN MinDate ELSE s1,
             end |-> IF e1 > Today THEN Today ELSE e1]

\* what one _download_and_parse call ends with: a table holding rows of some
\* symbols, an empty table, or an error of the session or of the parser
DownloadOutcomes ==
    [kind : {"table"}, symbols : SUBSET Symbols]
    \cup [kind : {"empty", "NSEConnectionError", "NSEParseError", "NSESessionError"},
          symbols : {{}}]

\* the old-format download when fetch_for_date does not get to it
NotMade == [kind |-> "none", symbols |-> {}]

\* (mutant) every attempt without rows goes on to the next one, whatever it raised
FallsThroughOnAnyError(o) == o.kind # "table"

\* the attempt produced nothing and fetch_for_date goes on to the next one:
\* an empty table, or an error caught by except (NSEConnectionError, NSEParseError)
FallsThrough(o) == o.kind \in {"empty", "NSEConnectionError", "NSEParseError"}

\* BhavCopyScraper.fetch_for_date for day d, given what the new-format and
\* the old-format download end with
fetch_for_date(d, o_new, o_old) ==
    IF ~is_trading_day(d) \/ d > Today
    THEN [kind |-> "NSEDataNotFoundError", symbols |-> {}]
    ELSE IF ~FallsThrough(o_new) THEN o_new
    ELSE IF ~FallsThrough(o_old) THEN o_old
    ELSE [kind |-> "NSEDataNotFoundError", symbols |-> {}]

NoFetch == [name |-> "none", requested |-> <<>>, symbols |-> <<>>, start |-> 0, end |-> 0]
NoFetchResult ==
    [kind |-> "none", keys |-> {}, frames |-> [x \in Symbols |-> NoFrame],
     source |-> "", symbol |-> "", date_range |-> <<>>]

\* the scraper before its first call, with an empty cache
InitScraper ==
    /\ cache = {}
    /\ fetch_pc = "idle"
    /\ fetch_op = NoFetch
    /\ current_date = 0
    /\ all_data = [x \in Symbols |-> <<>>]
    /\ errors = <<>>
    /\ fetch_result = NoFetchResult
    /\ day_fetches = <<>>
    /\ yielded = [x \in Symbols |-> {}]
    /\ phase = "first"
    /\ prev_fetch = [op |-> NoFetch, result |-> NoFetchResult]
    /\ cache_before = {}

\* ------------------------------------------------------------ fetch_for_date data
\* days after today that fetch_for_date may be asked for
MaxAhead == 3
\* the dates fetch_for_date is called with: past days, today, future days
DateArgs == 1..(NumDays + MaxAhead)

NoDateResult == [kind |-> "none", symbols |-> {}, format |-> "none", date |-> 0]

InitDate ==
    /\ fd_pc = "idle"
    /\ fd_date = 0
    /\ fd_requests = <<>>
    /\ fd_new = NotMade
    /\ fd_old = NotMade
    /\ fd_result = NoDateResult
    /\ fd_calls = 0

\* ------------------------------------------------------------ cache data
\* cache operations of one run
MaxCacheOps == 5
\* symbols the cache operations are called with
CacheSymbols == {"a", "A", "B"}
\* trade dates of cached rows, as days of the calendar
CacheDays == {1, 2}
\* values of a row (its close, standing for all seven value columns)
RowValues == {1, 2}
NoValue == 0
\* (symbol, trade_date) keys a row can be stored under
OhlcKeys == {upper(x) : x \in CacheSymbols} \X CacheDays
\* an index may be named like a symbol
IndexNames == {"B"}
MetaKeys == {"k"}

\* Python values handed to set_metadata
PyValues == [py : {"dict", "list", "tuple"}, items : {<<1, 2>>}] \cup {[py |-> "None", items |-> <<>>]}
NoData == [py |-> "absent", items |-> <<>>]
\* json.dumps: a dict becomes an object; a list and a tuple both become an array
json_dumps(v) ==
    [json |-> CASE v.py = "dict" -> "object"
                [] v.py \in {"list", "tuple"} -> "array"
                [] OTHER -> "null",
     items |-> v.items]
\* json.loads: an array becomes a list
json_loads(t) ==
    [py |-> CASE t.json = "object" -> "dict"
              [] t.json = "array" -> "list"
              [] OTHER -> "None",
     items |-> t.items]
\* ttl arguments of set_metadata, and steps of the clock, in ticks
Second == 10000
Ttls == {0 - Second, 0, Second}

\* a table is a bag of rows (its id column is read by no query)
EmptyTables == [ohlc |-> EmptyBag, index |-> EmptyBag, metadata |-> EmptyBag]
NoCacheResult ==
    [op |-> "none", symbol |-> "", key |-> "", kind |-> "none", count |-> 0,
     data |-> NoData, range |-> <<>>]

\* index values of a frame handed to set_ohlc: a Timestamp or a string in
\* ISO form, of a day
IndexValues == [day : CacheDays, form : {"Timestamp", "str"}]
\* set_ohlc, lines 216-221: strftime("%Y-%m-%d") of a Timestamp, a string as
\* it is; the ISO text of a day is written as the day
trade_date_str(ix) == ix.day
\* the frames set_ohlc is called with: no row, one row or two rows
OhlcFrames ==
    {<<>>} \cup {<<r>> : r \in [date : IndexValues, close : RowValues]}
           \cup {<<r, q>> : r \in [date : [day : CacheDays, form : {"Timestamp"}], close : {1}],
                            q \in [date : [day : CacheDays, form : {"Timestamp"}], close : {2}]}
\* how a set_ohlc call may fail: at the execute of which row, and with an
\* sqlite3.Error or with any other exception
NoFailure == [at |-> 0, kind |-> "none"]
Failures(frame) ==
    {NoFailure} \cup [at : 1..Len(frame), kind : {"sqlite3.Error", "other"}]

\* a new database: _init_db has created the empty tables
InitStore ==
    /\ ohlc_data = EmptyBag
    /\ index_data = EmptyBag
    /\ metadata_cache = EmptyBag
    /\ committed = EmptyTables
    /\ latest = [k \in OhlcKeys |-> NoValue]
    /\ stored = [k \in MetaKeys |-> NoData]
    /\ cache_ops = 0
    /\ cache_result = NoCacheResult

\* ------------------------------------------------------------ validate_date_range data
\* days before min_date that validate_date_range may be asked for
MaxBefore == 2
\* the dates validate_date_range is called with: before min_date, in the
\* calendar, after today
ValidArgs == (MinDate - MaxBefore)..(Today + MaxAhead)
NoValidResult == [kind |-> "none", start |-> 0, end |-> 0]

InitValid ==
    /\ vd_start = 0
    /\ vd_end = 0
    /\ vd_result = NoValidResult
    /\ vd_calls = 0

\* ------------------------------------------------------------ series data
\* series a snapshot row of the symbol may carry: a primary one, and block deals
SeriesNames == {"EQ", "BL"}
\* constants.PRIMARY_SERIES, the default of the series argument
PRIMARY_SERIES == {"EQ", "BE", "BZ"}
\* the series argument of a call: None (the default) or ["BL"]
SeriesArgs == {PRIMARY_SERIES, {"BL"}}
\* what the snapshot of a trading day holds of the symbol: a row of some
\* series, no row, or there is no snapshot
DayContents == SeriesNames \cup {"none", "NSEDataNotFoundError"}
TradingDays == {d \in Days : is_trading_day(d)}
\* utils.filter_by_series on one row
filter_by_series(row_series, series) == row_series \in series
NoSeriesResult == [kind |-> "none", source |-> "", series |-> {}, rows |-> <<>>]

InitFiltered ==
    /\ sr_cache = [d \in Days |-> "none"]
    /\ sr_phase = "none"
    /\ sr_result = NoSeriesResult

\* nothing has been constructed by a step of the model
InitBuilt ==
    /\ made = [o \in Objects |-> 0]
    /\ shaken = [o \in Objects |-> 0]

\* no get_metadata call is in progress
InitReader ==
    /\ gm_pc = "idle"
    /\ gm_key = ""
    /\ gm_row = <<>>

InitExtra ==
    /\ cache_fault = "none"
    /\ InitDate
    /\ InitStore
    /\ InitValid
    /\ InitReader
    /\ InitFiltered
    /\ InitBuilt

\* ------------------------------------------------------------ initial state
\* The singleton has been constructed: _init_session created the requests
\* session, built the default headers (one User-Agent rotation) and the
\* handshake succeeded at StartTime.  Since then the session may have served
\* an earlier call, answered 200 at its first attempt, whose pass through
\* _rate_limit was at time lastpass (0: no call yet).  The call under study
\* begins at time t0.
SessionFields(t0, lastpass) ==
    /\ now = t0
    /\ session = "open"
    /\ cookies = <<StartTime>>
    /\ session_created_time = StartTime
    /\ last_request_time = lastpass
    /\ request_lock = NoThread
    /\ ua_index = IF lastpass = 0 THEN 1 ELSE 2
    /\ pc = [t \in Threads |-> "idle"]
    /\ wake = [t \in Threads |-> t0]
    /\ method = [t \in Threads |-> "none"]
    /\ retry_count = [t \in Threads |-> 0]
    /\ last_exception = [t \in Threads |-> "none"]
    /\ seen_last = [t \in Threads |-> 0]
    /\ result = [t \in Threads |-> NoResult]
    /\ calls = [t \in Threads |-> 0]
    /\ sends = [t \in Threads |-> 0]
    /\ passes = [t \in Threads |-> 0]
    /\ prev = [t \in Threads |-> NoOutcome]
    /\ gap = [t \in Threads |-> NoGap]
    /\ hs_failed = [t \in Threads |-> FALSE]
    /\ sent_at = [t \in Threads |-> 0]
    /\ prev_sent = [t \in Threads |-> 0]
    /\ rl_log = IF lastpass = 0 THEN <<>> ELSE <<lastpass>>
    /\ ua_read = [t \in Threads |-> 0]

InitSession(t0, lastpass) ==
    /\ SessionFields(t0, lastpass)
    /\ InitRegistry
    /\ InitScraper
    /\ InitExtra

\* An earlier call that returned ReqTime after its pass leaves the handshake
\* of StartTime in place only if it was not expired at that call.
Init ==
    \E d \in IdleGaps, used \in BOOLEAN :
        /\ used => ReqTime <= d /\ d - ReqTime <= SESSION_REFRESH_INTERVAL
        /\ InitSession(StartTime + d, IF used THEN StartTime + d - ReqTime ELSE 0)

\* ------------------------------------------------------------ get / post
\* The call has ended: it returned, or an exception left it.
Finish(t, r) ==
    /\ pc' = [pc EXCEPT ![t] = "done"]
    /\ result' = [result EXCEPT ![t] = r]

\* get, post, download_file up to the session check: the caller enters the
\* method; an expired (or absent) handshake starts _establish_session,
\* otherwise the call goes on to _rate_limit.
StartCall(t, m) ==
    /\ pc[t] = "idle"
    /\ now >= wake[t]
    /\ calls[t] = 0
    /\ calls' = [calls EXCEPT ![t] = @ + 1]
    /\ method' = [method EXCEPT ![t] = m]
    /\ retry_count' = [retry_count EXCEPT ![t] = 0]
    /\ last_exception' = [last_exception EXCEPT ![t] = "none"]
    /\ sends' = [sends EXCEPT ![t] = 0]
    /\ passes' = [passes EXCEPT ![t] = 0]
    /\ prev' = [prev EXCEPT ![t] = NoOutcome]
    /\ gap' = [gap EXCEPT ![t] = NoGap]
    /\ hs_failed' = [hs_failed EXCEPT ![t] = FALSE]
    /\ IF session = "none"
       THEN /\ Finish(t, Raise("NSESessionError", 0, "Session not initialized", "None"))
            /\ UNCHANGED wake
       ELSE /\ result' = [result EXCEPT ![t] = NoResult]
            /\ IF should_refresh_session
               THEN /\ pc' = [pc EXCEPT ![t] = "refresh"]
                    /\ wake' = [wake EXCEPT ![t] = now + ReqTime]
               ELSE /\ pc' = [pc EXCEPT ![t] = "rl_wait"]
                    /\ UNCHANGED wake
    /\ UNCHANGED <<now, shared, seen_last, sent_at, prev_sent, rl_log>>
    /\ UNCHANGED apart

\* _establish_session called by get/post before the loop: the homepage
\* answers.  Success stores the cookies and the handshake time; a
\* RequestException becomes NSESessionError, which leaves the call.
RefreshDone(t, ok) ==
    /\ pc[t] = "refresh"
    /\ now >= wake[t]
    /\ gap' = [gap EXCEPT ![t].hs = @ + 1]
    /\ IF ok
       THEN /\ cookies' = <<now>>
            /\ session_created_time' = now
            /\ pc' = [pc EXCEPT ![t] = "rl_wait"]
            /\ UNCHANGED <<result, hs_failed>>
       ELSE /\ Finish(t, Raise("NSESessionError", 0,
                               "Failed to establish session with NSE", "RequestException"))
            /\ hs_failed' = [hs_failed EXCEPT ![t] = TRUE]
            /\ UNCHANGED <<cookies, session_created_time>>
    /\ UNCHANGED <<now, wake, session, last_request_time, request_lock, ua_index,
                   method, retry_count, last_exception, seen_last, calls,
                   sends, passes, prev, sent_at, prev_sent, rl_log>>
    /\ UNCHANGED apart

\* where a thread goes when _rate_limit returns
AfterRateLimit(t) == IF method[t] = "_rate_limit" THEN "done" ELSE "attempt"

\* _rate_limit, line 202 and the end of the with block: the pass is
\* stamped and the lock released.
StampAndRelease(t) ==
    /\ last_request_time' = now
    /\ request_lock' = NoThread
    /\ rl_log' = Append(rl_log, now)
    /\ passes' = [passes EXCEPT ![t] = @ + 1]
    /\ pc' = [pc EXCEPT ![t] = AfterRateLimit(t)]

\* _rate_limit: take the lock, read the clock and the last request time;
\* sleep for the rest of MIN_REQUEST_DELAY inside the lock, or stamp at once.
RateLimitEnter(t) ==
    /\ pc[t] = "rl_wait"
    /\ LockFree
    /\ seen_last' = [seen_last EXCEPT ![t] = last_request_time]
    /\ LET elapsed == now - last_request_time IN
       IF elapsed < MIN_REQUEST_DELAY
       THEN /\ request_lock' = t
            /\ pc' = [pc EXCEPT ![t] = "rl_sleep"]
            /\ wake' = [wake EXCEPT ![t] = now + SleepTime(elapsed)]
            /\ gap' = [gap EXCEPT ![t].sleeps = Append(@, SleepTime(elapsed))]
            /\ UNCHANGED <<last_request_time, rl_log, passes>>
       ELSE /\ StampAndRelease(t)
            /\ UNCHANGED <<wake, gap>>
    /\ UNCHANGED <<now, session, cookies, session_created_time, ua_index,
                   method, retry_count, last_exception, result, calls,
                   sends, prev, hs_failed, sent_at, prev_sent>>
    /\ UNCHANGED apart

\* _rate_limit after its sleep
RateLimitWake(t) ==
    /\ pc[t] = "rl_sleep"
    /\ now >= wake[t]
    /\ StampAndRelease(t)
    /\ UNCHANGED <<now, wake, session, cookies, session_created_time, ua_index,
                   method, retry_count, last_exception, seen_last, result, calls,
                   sends, prev, gap, hs_failed, sent_at, prev_sent>>
    /\ UNCHANGED apart

\* ------------------------------------------------------------ retry loop
\* The loop of get/post is entered for one more attempt and _get_headers
\* loads self._ua_index.  The load and the store of the rotation are two
\* steps of the interpreter: another thread may run between them.
LoadUA(t) ==
    /\ pc[t] = "attempt"
    /\ LoopContinues(retry_count[t])
    /\ ua_read' = [ua_read EXCEPT ![t] = ua_index]
    /\ pc' = [pc EXCEPT ![t] = "headers"]
    /\ UNCHANGED <<now, wake, shared, locals, history, registry, scraper, extra>>

\* The rest of one attempt: _get_headers stores the rotated index and the
\* request is dispatched with the current cookies.  The exchange either
\* answers after ReqTime or runs into the timeout.
Send(t, timesout) ==
    /\ pc[t] = "headers"
    /\ ua_index' = (ua_read[t] + 1) % NUM_USER_AGENTS
    /\ sends' = [sends EXCEPT ![t] = @ + 1]
    /\ prev_sent' = [prev_sent EXCEPT ![t] = sent_at[t]]
    /\ sent_at' = [sent_at EXCEPT ![t] = now]
    /\ IF timesout
       THEN /\ pc' = [pc EXCEPT ![t] = "timing_out"]
            /\ wake' = [wake EXCEPT ![t] = now + TimeoutOf(method[t])]
       ELSE /\ pc' = [pc EXCEPT ![t] = "await"]
            /\ wake' = [wake EXCEPT ![t] = now + ReqTime]
    /\ UNCHANGED <<now, session, cookies, session_created_time, last_request_time,
                   request_lock, locals, passes, prev, gap, hs_failed, rl_log>>
    /\ UNCHANGED apart

\* The loop condition fails: "All retries exhausted".
GiveUp(t) ==
    /\ pc[t] = "attempt"
    /\ ~LoopContinues(retry_count[t])
    /\ Finish(t, Raise("NSEConnectionError", 0,
                       "Failed to connect to NSE after multiple retries",
                       DetailsOf(last_exception[t])))
    /\ UNCHANGED <<now, wake, shared, method, retry_count, last_exception,
                   seen_last, calls, history>>
    /\ UNCHANGED apart

\* (mutant) the retry after a session or rate-limit error is not counted
RetryNowUncounted(t, exc) ==
    /\ UNCHANGED retry_count
    /\ last_exception' = [last_exception EXCEPT ![t] = exc]
    /\ pc' = [pc EXCEPT ![t] = "attempt"]

\* except NSESessionError / NSERateLimitError with no sleep: count and go on
RetryNow(t, exc) ==
    /\ retry_count' = [retry_count EXCEPT ![t] = @ + 1]
    /\ last_exception' = [last_exception EXCEPT ![t] = exc]
    /\ pc' = [pc EXCEPT ![t] = "attempt"]

\* except Timeout / RequestException: count, remember, sleep the backoff
RetryAfterBackoff(t, exc) ==
    /\ retry_count' = [retry_count EXCEPT ![t] = @ + 1]
    /\ last_exception' = [last_exception EXCEPT ![t] = exc]
    /\ pc' = [pc EXCEPT ![t] = "sleep_bo"]
    /\ wake' = [wake EXCEPT ![t] = now + BackoffDelay(retry_count[t] + 1)]
    /\ gap' = [gap EXCEPT ![t] = [hs |-> 0, sleeps |-> <<BackoffDelay(retry_count[t] + 1)>>]]

\* A response arrives.  ok responses are returned; the others go through
\* _handle_response_error and the except clauses of the loop.
Respond(t, status, hdr) ==
    /\ pc[t] = "await"
    /\ now >= wake[t]
    /\ hdr = "absent" \/ status = 429
    /\ prev' = [prev EXCEPT ![t] = [kind |-> "response", status |-> status, retry_after |-> hdr]]
    /\ IF ResponseOk(status)
       THEN /\ Finish(t, Raise("response", status, "", ""))
            /\ gap' = [gap EXCEPT ![t] = NoGap]
            /\ UNCHANGED <<wake, retry_count, last_exception>>
       ELSE CASE Classify(status) = "auth" ->
                   \* _establish_session is called; without a requests
                   \* session it raises NSESessionError at once
                   /\ gap' = [gap EXCEPT ![t] = NoGap]
                   /\ IF session = "none"
                      THEN /\ RetryNow(t, last_exception[t])
                           /\ UNCHANGED <<wake, result>>
                      ELSE /\ pc' = [pc EXCEPT ![t] = "hs_err"]
                           /\ wake' = [wake EXCEPT ![t] = now + ReqTime]
                           /\ UNCHANGED <<result, retry_count, last_exception>>
              [] Classify(status) = "rate_limit" ->
                   IF ~FloatOk(hdr)
                   THEN \* float() raises ValueError, which no except clause catches
                        /\ Finish(t, Raise("ValueError", 0, "could not convert string to float", ""))
                        /\ gap' = [gap EXCEPT ![t] = NoGap]
                        /\ UNCHANGED <<wake, retry_count, last_exception>>
                   ELSE LET ra == ParseRetryAfter(hdr) IN
                        IF ra = 0
                        THEN \* e.retry_after is falsy: no sleep
                             /\ RetryNow(t, "NSERateLimitError")
                             /\ gap' = [gap EXCEPT ![t] = NoGap]
                             /\ UNCHANGED <<wake, result>>
                        ELSE IF ra < 0
                        THEN \* time.sleep raises ValueError for a negative length
                             /\ Finish(t, Raise("ValueError", 0, "sleep length must be non-negative", ""))
                             /\ gap' = [gap EXCEPT ![t] = NoGap]
                             /\ UNCHANGED <<wake, retry_count, last_exception>>
                        ELSE /\ pc' = [pc EXCEPT ![t] = "sleep_ra"]
                             /\ wake' = [wake EXCEPT ![t] = now + ra]
                             /\ gap' = [gap EXCEPT ![t] = [hs |-> 0, sleeps |-> <<ra>>]]
                             /\ UNCHANGED <<result, retry_count, last_exception>>
              [] Classify(status) = "not_found" ->
                   /\ Finish(t, Raise("NSEConnectionError", status, "Resource not found", "URL"))
                   /\ gap' = [gap EXCEPT ![t] = NoGap]
                   /\ UNCHANGED <<wake, retry_count, last_exception>>
              [] OTHER ->
                   /\ Finish(t, Raise("NSEConnectionError", status, "HTTP error", "response.text"))
                   /\ gap' = [gap EXCEPT ![t] = NoGap]
                   /\ UNCHANGED <<wake, retry_count, last_exception>>
    /\ UNCHANGED <<now, shared, method, seen_last, calls,
                   sends, passes, hs_failed, sent_at, prev_sent, rl_log>>
    /\ UNCHANGED apart

\* The exchange fails with a requests exception other than Timeout.
TransportError(t) ==
    /\ pc[t] = "await"
    /\ now >= wake[t]
    /\ prev' = [prev EXCEPT ![t] = [kind |-> "ConnectionError", status |-> 0, retry_after |-> "absent"]]
    /\ RetryAfterBackoff(t, "ConnectionError")
    /\ UNCHANGED <<now, shared, method, seen_last, result, calls,
                   sends, passes, hs_failed, sent_at, prev_sent, rl_log>>
    /\ UNCHANGED apart

\* The exchange runs into its timeout: requests.exceptions.Timeout.
RequestTimeout(t) ==
    /\ pc[t] = "timing_out"
    /\ now >= wake[t]
    /\ prev' = [prev EXCEPT ![t] = [kind |-> "Timeout", status |-> 0, retry_after |-> "absent"]]
    /\ RetryAfterBackoff(t, "Timeout")
    /\ UNCHANGED <<now, shared, method, seen_last, result, calls,
                   sends, passes, hs_failed, sent_at, prev_sent, rl_log>>
    /\ UNCHANGED apart

\* _establish_session called by _handle_response_error for 401/403: the
\* homepage answers.  Whether it succeeded or failed, an NSESessionError is
\* raised inside the try block and caught by "except NSESessionError".
ErrHandshakeDone(t, ok) ==
    /\ pc[t] = "hs_err"
    /\ now >= wake[t]
    /\ gap' = [gap EXCEPT ![t].hs = @ + 1]
    /\ IF ok
       THEN /\ cookies' = <<now>>
            /\ session_created_time' = now
            /\ UNCHANGED hs_failed
       ELSE /\ hs_failed' = [hs_failed EXCEPT ![t] = TRUE]
            /\ UNCHANGED <<cookies, session_created_time>>
    /\ RetryNow(t, last_exception[t])
    /\ UNCHANGED <<now, wake, session, last_request_time, request_lock, ua_index,
                   method, seen_last, result, calls,
                   sends, passes, prev, sent_at, prev_sent, rl_log>>
    /\ UNCHANGED apart

\* time.sleep(e.retry_after) is over: count the retry, remember the error
WakeRetryAfter(t) ==
    /\ pc[t] = "sleep_ra"
    /\ now >= wake[t]
    /\ RetryNow(t, "NSERateLimitError")
    /\ UNCHANGED <<now, wake, shared, method, seen_last, result, calls, history>>
    /\ UNCHANGED apart

\* the backoff sleep is over: continue
WakeBackoff(t) ==
    /\ pc[t] = "sleep_bo"
    /\ now >= wake[t]
    /\ pc' = [pc EXCEPT ![t] = "attempt"]
    /\ UNCHANGED <<now, wake, shared, locals, history>>
    /\ UNCHANGED apart

\* ------------------------------------------------------------ environment
\* Time passes, up to the next moment a blocked thread goes on.
Tick ==
    LET pending == {wake[t] : t \in {u \in Threads : Blocked(u) /\ wake[u] > now}} IN
    /\ pending # {}
    /\ now' = CHOOSE w \in pending : \A x \in pending : w <= x
    /\ UNCHANGED <<pc, wake, shared, locals, history>>
    /\ UNCHANGED apart

\* ------------------------------------------------------------ specification
\* One caller making one get, post or download_file call through the
\* session, against any server behaviour.
Next ==
    \/ \E m \in Methods : StartCall(Main, m)
    \/ \E ok \in BOOLEAN : RefreshDone(Main, ok)
    \/ RateLimitEnter(Main)
    \/ RateLimitWake(Main)
    \/ LoadUA(Main)
    \/ \E timesout \in BOOLEAN : Send(Main, timesout)
    \/ \E status \in Statuses, hdr \in RetryAfterHeaders : Respond(Main, status, hdr)
    \/ TransportError(Main)
    \/ RequestTimeout(Main)
    \/ \E ok \in BOOLEAN : ErrHandshakeDone(Main, ok)
    \/ WakeRetryAfter(Main)
    \/ WakeBackoff(Main)
    \/ GiveUp(Main)
    \/ Tick

Spec == Init /\ [][Next]_vars

\* The same call where the caller's thread keeps running, every handshake,
\* exchange and sleep comes to its end, and time goes on.
SpecLive == Init /\ [][Next]_vars /\ WF_vars(Next)

\* ------------------------------------------------------------ rate limiter alone
\* A thread calls _rate_limit directly.
RateLimitCall(t) ==
    /\ pc[t] = "idle"
    /\ now >= wake[t]
    /\ Len(rl_log) + Cardinality({u \in Threads : pc[u] \in {"rl_wait", "rl_sleep"}}) < MaxPasses
    /\ calls' = [calls EXCEPT ![t] = @ + 1]
    /\ method' = [method EXCEPT ![t] = "_rate_limit"]
    /\ pc' = [pc EXCEPT ![t] = "rl_wait"]
    /\ gap' = [gap EXCEPT ![t] = NoGap]
    /\ UNCHANGED <<now, wake, shared, retry_count, last_exception, seen_last, result,
                   sends, passes, prev, hs_failed, sent_at, prev_sent, rl_log>>
    /\ UNCHANGED apart

\* _rate_limit has returned; the thread calls again at once or after a pause.
RateLimitReturn(t, d) ==
    /\ pc[t] = "done"
    /\ method[t] = "_rate_limit"
    /\ pc' = [pc EXCEPT ![t] = "idle"]
    /\ wake' = [wake EXCEPT ![t] = now + d]
    /\ UNCHANGED <<now, shared, locals, history>>
    /\ UNCHANGED apart

InitRL == InitSession(StartTime, 0)

NextRL ==
    \/ \E t \in Threads : RateLimitCall(t)
    \/ \E t \in Threads : RateLimitEnter(t)
    \/ \E t \in Threads : RateLimitWake(t)
    \/ \E t \in Threads, d \in ShortGaps : RateLimitReturn(t, d)
    \/ Tick

\* NumThreads threads calling _rate_limit concurrently, MaxPasses times in all.
SpecRL == InitRL /\ [][NextRL]_vars

\* ------------------------------------------------------------ close
\* close(): if there is a requests session it is closed and forgotten, and
\* the cookies and the handshake time are cleared.  The caller is between
\* two calls.
Close(t) ==
    /\ pc[t] \in {"idle", "done"}
    /\ session # "none"
    /\ session' = "none"
    /\ cookies' = <<>>
    /\ session_created_time' = 0
    /\ UNCHANGED <<now, pc, wake, last_request_time, request_lock, ua_index,
                   locals, history, apart>>

\* One caller who may close the session before or after its call.
NextClose ==
    \/ Close(Main)
    \/ \E m \in Methods : StartCall(Main, m)
    \/ \E ok \in BOOLEAN : RefreshDone(Main, ok)
    \/ RateLimitEnter(Main)
    \/ RateLimitWake(Main)
    \/ LoadUA(Main)
    \/ \E timesout \in BOOLEAN : Send(Main, timesout)
    \/ \E status \in Statuses, hdr \in RetryAfterHeaders : Respond(Main, status, hdr)
    \/ TransportError(Main)
    \/ RequestTimeout(Main)
    \/ \E ok \in BOOLEAN : ErrHandshakeDone(Main, ok)
    \/ WakeRetryAfter(Main)
    \/ WakeBackoff(Main)
    \/ GiveUp(Main)
    \/ Tick

SpecClose == Init /\ [][NextClose]_vars

\* ------------------------------------------------------------ concurrent get
\* NumThreads threads, each making one get call through the shared session
\* object; the server answers every request 200.  The handshake is fresh,
\* nearly expired or expired when the first call begins.
InitMT == \E d \in IdleGaps : InitSession(StartTime + d, 0)

NextMT ==
    \/ \E t \in Threads : StartCall(t, "get")
    \/ \E t \in Threads, ok \in BOOLEAN : RefreshDone(t, ok)
    \/ \E t \in Threads : RateLimitEnter(t)
    \/ \E t \in Threads : RateLimitWake(t)
    \/ \E t \in Threads : LoadUA(t)
    \/ \E t \in Threads : Send(t, FALSE)
    \/ \E t \in Threads : Respond(t, 200, "absent")
    \/ Tick

SpecMT == InitMT /\ [][NextMT]_vars

\* ------------------------------------------------------------ singleton
\* the thread is inside get_instance()
InGetInstance(t) ==
    pc[t] \in {"new_lock", "new_mark", "new_return", "init_check", "init_fields",
               "init_create", "init_hs"}

\* the thread is inside reset_instance()
InReset(t) == pc[t] = "reset_wait"

\* the fields of the session object that the singleton specification leaves
\* alone
session_side == <<now, wake, shared, locals, history, ua_read, scraper, extra>>

\* get_instance() returns object o (NoObject: None) to the thread
Returned(t, o) ==
    /\ pc' = [pc EXCEPT ![t] = "idle"]
    /\ got_log' = got_log \cup {<<resets, o>>}

\* get_instance() -> cls() -> __new__, first test of cls._instance
GetInstance(t) ==
    /\ pc[t] = "idle"
    /\ ops < MaxOps
    /\ ops' = ops + 1
    /\ overlap' = (overlap \/ \E u \in Threads : InReset(u))
    /\ pc' = [pc EXCEPT ![t] = IF instance = NoObject THEN "new_lock" ELSE "new_return"]
    /\ UNCHANGED <<instance, cls_lock, objects, obj_init, obj_session, obj_hs, ref,
                   resets, got_log, session_side>>

\* (mutant) __new__ without the second test under the lock
NothingRegisteredUnchecked == TRUE

\* __new__: if cls._instance is None
NothingRegistered == instance = NoObject

\* __new__: with cls._lock, second test; the object is created and registered
NewLocked(t) ==
    /\ pc[t] = "new_lock"
    /\ cls_lock = NoThread
    /\ IF NothingRegistered
       THEN /\ objects' = objects + 1
            /\ instance' = objects + 1
            /\ cls_lock' = t
            /\ pc' = [pc EXCEPT ![t] = "new_mark"]
       ELSE /\ pc' = [pc EXCEPT ![t] = "new_return"]
            /\ UNCHANGED <<objects, instance, cls_lock>>
    /\ UNCHANGED <<obj_init, obj_session, obj_hs, ref, ops, resets, overlap, got_log,
                   session_side>>

\* __new__: cls._instance._initialized = False, and the lock is released
NewMark(t) ==
    /\ pc[t] = "new_mark"
    /\ obj_init' = [obj_init EXCEPT ![instance] = "false"]
    /\ cls_lock' = NoThread
    /\ pc' = [pc EXCEPT ![t] = "new_return"]
    /\ UNCHANGED <<instance, objects, obj_session, obj_hs, ref, ops, resets, overlap,
                   got_log, session_side>>

\* __new__: return cls._instance.  type.__call__ runs __init__ only on an
\* instance of the class: when the attribute has become None meanwhile,
\* get_instance() returns None.
NewReturn(t) ==
    /\ pc[t] = "new_return"
    /\ ref' = [ref EXCEPT ![t] = instance]
    /\ IF instance = NoObject
       THEN Returned(t, NoObject)
       ELSE /\ pc' = [pc EXCEPT ![t] = "init_check"]
            /\ UNCHANGED got_log
    /\ UNCHANGED <<instance, cls_lock, objects, obj_init, obj_session, obj_hs,
                   ops, resets, overlap, session_side>>

\* __init__: if self._initialized: return.  Reading the attribute before
\* __new__ has set it raises AttributeError.
InitCheck(t) ==
    /\ pc[t] = "init_check"
    /\ CASE obj_init[ref[t]] = "true" -> Returned(t, ref[t])
         [] obj_init[ref[t]] = "false" ->
              /\ pc' = [pc EXCEPT ![t] = "init_fields"]
              /\ UNCHANGED got_log
         [] OTHER ->
              /\ pc' = [pc EXCEPT ![t] = "idle"]
              /\ UNCHANGED got_log
    /\ UNCHANGED <<instance, cls_lock, objects, obj_init, obj_session, obj_hs, ref,
                   ops, resets, overlap, session_side>>

\* __init__: the fields get their defaults and _initialized becomes True
InitFields(t) ==
    /\ pc[t] = "init_fields"
    /\ obj_session' = [obj_session EXCEPT ![ref[t]] = "none"]
    /\ obj_hs' = [obj_hs EXCEPT ![ref[t]] = FALSE]
    /\ obj_init' = [obj_init EXCEPT ![ref[t]] = "true"]
    /\ pc' = [pc EXCEPT ![t] = "init_create"]
    /\ UNCHANGED <<instance, cls_lock, objects, ref, ops, resets, overlap, got_log,
                   session_side>>

\* _init_session: self._session = requests.Session(), adapters and headers
InitCreate(t) ==
    /\ pc[t] = "init_create"
    /\ obj_session' = [obj_session EXCEPT ![ref[t]] = "open"]
    /\ made' = [made EXCEPT ![ref[t]] = @ + 1]
    /\ pc' = [pc EXCEPT ![t] = "init_hs"]
    /\ UNCHANGED <<instance, cls_lock, objects, obj_init, obj_hs, ref, ops, resets,
                   overlap, got_log>>
    /\ UNCHANGED <<now, wake, shared, locals, history, ua_read, scraper, cache_fault,
                   dateop, store, valid, reader, filtered, shaken>>

\* _init_session: _establish_session.  Without a requests session, or when
\* the homepage request fails, NSESessionError leaves get_instance();
\* otherwise the handshake is recorded and the object returned.
InitHandshake(t, ok) ==
    /\ pc[t] = "init_hs"
    /\ IF ok /\ obj_session[ref[t]] = "open"
       THEN /\ obj_hs' = [obj_hs EXCEPT ![ref[t]] = TRUE]
            /\ Returned(t, ref[t])
       ELSE /\ pc' = [pc EXCEPT ![t] = "idle"]
            /\ UNCHANGED <<obj_hs, got_log>>
    /\ shaken' = [shaken EXCEPT ![ref[t]] = IF obj_session[ref[t]] = "open" THEN @ + 1 ELSE @]
    /\ UNCHANGED <<instance, cls_lock, objects, obj_init, obj_session, ref,
                   ops, resets, overlap>>
    /\ UNCHANGED <<now, wake, shared, locals, history, ua_read, scraper, cache_fault,
                   dateop, store, valid, reader, filtered, made>>

\* reset_instance() is called and waits for cls._lock
ResetInstance(t) ==
    /\ pc[t] = "idle"
    /\ ops < MaxOps
    /\ ops' = ops + 1
    /\ overlap' = (overlap \/ \E u \in Threads : InGetInstance(u))
    /\ pc' = [pc EXCEPT ![t] = "reset_wait"]
    /\ UNCHANGED <<instance, cls_lock, objects, obj_init, obj_session, obj_hs, ref,
                   resets, got_log, session_side>>

\* reset_instance() with the lock: the registered object, if any, is closed
\* and unregistered.  close() on an object whose __init__ has not yet set
\* _session raises AttributeError, which leaves the object registered.
ResetBody(t) ==
    /\ pc[t] = "reset_wait"
    /\ cls_lock = NoThread
    /\ pc' = [pc EXCEPT ![t] = "idle"]
    /\ resets' = resets + 1
    /\ IF instance = NoObject
       THEN UNCHANGED <<instance, obj_session, obj_hs>>
       ELSE IF obj_session[instance] = "absent"
       THEN UNCHANGED <<instance, obj_session, obj_hs>>
       ELSE /\ instance' = NoObject
            /\ IF obj_session[instance] = "open"
               THEN /\ obj_session' = [obj_session EXCEPT ![instance] = "none"]
                    /\ obj_hs' = [obj_hs EXCEPT ![instance] = FALSE]
               ELSE UNCHANGED <<obj_session, obj_hs>>
    /\ UNCHANGED <<cls_lock, objects, obj_init, ref, ops, overlap, got_log, session_side>>

\* nothing has been constructed yet
InitSingleton ==
    /\ SessionFields(StartTime, 0)
    /\ NoRegistry
    /\ InitScraper
    /\ InitExtra

NextSingleton ==
    \/ \E t \in Threads : GetInstance(t)
    \/ \E t \in Threads : NewLocked(t)
    \/ \E t \in Threads : NewMark(t)
    \/ \E t \in Threads : NewReturn(t)
    \/ \E t \in Threads : InitCheck(t)
    \/ \E t \in Threads : InitFields(t)
    \/ \E t \in Threads : InitCreate(t)
    \/ \E t \in Threads, ok \in BOOLEAN : InitHandshake(t, ok)
    \/ \E t \in Threads : ResetInstance(t)
    \/ \E t \in Threads : ResetBody(t)

\* NumThreads threads calling get_instance() and reset_instance(), MaxOps
\* times in all.
SpecSingleton == InitSingleton /\ [][NextSingleton]_vars

\* ------------------------------------------------------------ construction
\* The class and the session before the first get_instance(): nothing is
\* registered and no field of the session has a value of its own.
InitUnbuilt ==
    /\ now = StartTime
    /\ session = "none"
    /\ cookies = <<>>
    /\ session_created_time = 0
    /\ last_request_time = 0
    /\ request_lock = NoThread
    /\ ua_index = 0
    /\ pc = [t \in Threads |-> "idle"]
    /\ wake = [t \in Threads |-> StartTime]
    /\ method = [t \in Threads |-> "none"]
    /\ retry_count = [t \in Threads |-> 0]
    /\ last_exception = [t \in Threads |-> "none"]
    /\ seen_last = [t \in Threads |-> 0]
    /\ result = [t \in Threads |-> NoResult]
    /\ calls = [t \in Threads |-> 0]
    /\ sends = [t \in Threads |-> 0]
    /\ passes = [t \in Threads |-> 0]
    /\ prev = [t \in Threads |-> NoOutcome]
    /\ gap = [t \in Threads |-> NoGap]
    /\ hs_failed = [t \in Threads |-> FALSE]
    /\ sent_at = [t \in Threads |-> 0]
    /\ prev_sent = [t \in Threads |-> 0]
    /\ rl_log = <<>>
    /\ ua_read = [t \in Threads |-> 0]
    /\ NoRegistry
    /\ InitScraper
    /\ InitExtra

\* (mutant) _initialized becomes True once _init_session has returned
MarkedAfterSession == FALSE

\* __init__, lines 86-87: self._initialized = True comes before
\* self._init_session()
MarkedBeforeSession == TRUE

\* The first get_instance(), run by one thread alone from __new__ to the end
\* of _init_session: the object is created and registered, __init__ gives the
\* fields their defaults and marks the object, _init_session creates the
\* requests session, builds the default headers (one User-Agent rotation) and
\* visits the homepage, which takes ReqTime.  Success stores the cookies and
\* the handshake time and the object is returned; a RequestException becomes
\* NSESessionError, which leaves get_instance().
Construct(t, ok) ==
    /\ pc[t] = "idle"
    /\ NothingRegistered
    /\ ops < MaxOps
    /\ ops' = ops + 1
    /\ objects' = objects + 1
    /\ instance' = objects + 1
    /\ ref' = [ref EXCEPT ![t] = objects + 1]
    /\ obj_init' = [obj_init EXCEPT ![objects + 1] =
                        IF MarkedBeforeSession \/ ok THEN "true" ELSE "false"]
    /\ obj_session' = [obj_session EXCEPT ![objects + 1] = "open"]
    /\ obj_hs' = [obj_hs EXCEPT ![objects + 1] = ok]
    /\ made' = [made EXCEPT ![objects + 1] = @ + 1]
    /\ shaken' = [shaken EXCEPT ![objects + 1] = @ + 1]
    /\ session' = "open"
    /\ ua_index' = (ua_index + 1) % NUM_USER_AGENTS
    /\ now' = now + ReqTime
    /\ IF ok
       THEN /\ cookies' = <<now'>>
            /\ session_created_time' = now'
            /\ got_log' = got_log \cup {<<resets, objects + 1>>}
            /\ UNCHANGED result
       ELSE /\ result' = [result EXCEPT ![t] =
                              Raise("NSESessionError", 0,
                                    "Failed to establish session with NSE",
                                    "RequestException")]
            /\ UNCHANGED <<cookies, session_created_time, got_log>>
    /\ UNCHANGED <<pc, wake, last_request_time, request_lock, method, retry_count,
                   last_exception, seen_last, calls, history, ua_read, cls_lock,
                   resets, overlap, scraper, cache_fault, dateop, store, valid,
                   reader, filtered>>

\* the answers of the server to the get that follows: success, 403 (a new
\* handshake and a retry) or 500 (NSEConnectionError)
StatusesAfterBuild == {200, 403, 500}

\* One thread constructs the singleton, with a handshake that succeeds or
\* fails; after that the threads call get_instance() again, MaxOps calls in
\* all, and the first thread makes one get through the object.
NextBuild ==
    \/ \E ok \in BOOLEAN : Construct(Main, ok)
    \/ \E t \in Threads : ~NothingRegistered /\ GetInstance(t)
    \/ \E t \in Threads : NewReturn(t)
    \/ \E t \in Threads : InitCheck(t)
    \/ ~NothingRegistered /\ StartCall(Main, "get")
    \/ \E ok \in BOOLEAN : RefreshDone(Main, ok)
    \/ RateLimitEnter(Main)
    \/ LoadUA(Main)
    \/ Send(Main, FALSE)
    \/ \E status \in StatusesAfterBuild : Respond(Main, status, "absent")
    \/ \E ok \in BOOLEAN : ErrHandshakeDone(Main, ok)
    \/ GiveUp(Main)
    \/ Tick

SpecBuild == InitUnbuilt /\ [][NextBuild]_vars

\* ------------------------------------------------------------ scraper
\* fetch_for_symbol, lines 311-320: the cache holds rows of the symbol inside
\* the range, and its earliest and latest row enclose the range
CacheCovers(sym, start, end) ==
    /\ use_cache
    /\ get_ohlc(sym, start, end) # NoFrame
    /\ get_cached_date_range(sym) # <<>>
    /\ get_cached_date_range(sym)[1] <= start
    /\ get_cached_date_range(sym)[2] >= end

\* (mutant) no per-day error is caught by the walk
SwallowedNone(kind) == FALSE

\* except NSEDataNotFoundError / except NSEConnectionError of the walk
Swallowed(kind) == kind \in {"NSEDataNotFoundError", "NSEConnectionError"}

\* the call ends
FetchDone(r) ==
    /\ fetch_pc' = "done"
    /\ fetch_result' = r

\* the call begins its walk at the start date
BeginWalk(op) ==
    /\ fetch_pc' = "walk"
    /\ current_date' = op.start
    /\ fetch_result' = NoFetchResult

\* for symbol in symbols: the day's rows of each listed symbol are appended
\* to its list, once for each time the symbol is listed
RECURSIVE FanOut(_, _, _, _)
FanOut(data, syms, present, d) ==
    IF syms = <<>> THEN data
    ELSE FanOut(IF Head(syms) \in present
                THEN [data EXCEPT ![Head(syms)] = Append(@, d)]
                ELSE data,
                Tail(syms), present, d)

\* fetch_for_symbol up to the walk: the symbol is trimmed and upper-cased,
\* the dates are validated and the cache is consulted; a covering cache is
\* answered from get_ohlc.
FetchForSymbol(sym, s, e) ==
    /\ fetch_pc = "idle"
    /\ LET r == validate_date_range(s, e)
           symbol == upper(strip(sym))
           op == [name |-> "fetch_for_symbol", requested |-> <<sym>>,
                  symbols |-> <<symbol>>, start |-> r.start, end |-> r.end]
       IN /\ fetch_op' = op
          /\ IF ~r.ok
             THEN /\ FetchDone([NoFetchResult EXCEPT !.kind = "NSEInvalidDateError"])
                  /\ UNCHANGED current_date
             ELSE IF CacheCovers(symbol, r.start, r.end)
             THEN /\ FetchDone([NoFetchResult EXCEPT
                                   !.kind = "frame",
                                   !.frames[symbol] = get_ohlc(symbol, r.start, r.end),
                                   !.source = "cache"])
                  /\ UNCHANGED current_date
             ELSE BeginWalk(op)
    /\ cache_before' = cache
    /\ all_data' = [x \in Symbols |-> <<>>]
    /\ errors' = <<>>
    /\ day_fetches' = <<>>
    /\ yielded' = [x \in Symbols |-> {}]
    /\ UNCHANGED <<cache, phase, prev_fetch>>
    /\ UNCHANGED <<now, pc, wake, shared, locals, history, ua_read, registry, extra>>

\* fetch_bulk up to the walk: the symbols are trimmed and upper-cased and the
\* dates are validated; the cache is not read.
FetchBulk(syms, s, e) ==
    /\ fetch_pc = "idle"
    /\ LET r == validate_date_range(s, e)
           op == [name |-> "fetch_bulk", requested |-> syms,
                  symbols |-> Normalize(syms), start |-> r.start, end |-> r.end]
       IN /\ fetch_op' = op
          /\ IF ~r.ok
             THEN /\ FetchDone([NoFetchResult EXCEPT !.kind = "NSEInvalidDateError"])
                  /\ UNCHANGED current_date
             ELSE BeginWalk(op)
    /\ cache_before' = cache
    /\ all_data' = [x \in Symbols |-> <<>>]
    /\ errors' = <<>>
    /\ day_fetches' = <<>>
    /\ yielded' = [x \in Symbols |-> {}]
    /\ UNCHANGED <<cache, phase, prev_fetch>>
    /\ UNCHANGED <<now, pc, wake, shared, locals, history, ua_read, registry, extra>>

\* the walk passes a weekend day
SkipDay ==
    /\ fetch_pc = "walk"
    /\ current_date <= fetch_op.end
    /\ ~is_trading_day(current_date)
    /\ current_date' = current_date + 1
    /\ UNCHANGED <<cache, fetch_pc, fetch_op, all_data, errors, fetch_result,
                   day_fetches, yielded, phase, prev_fetch, cache_before>>
    /\ UNCHANGED <<now, pc, wake, shared, locals, history, ua_read, registry, extra>>

\* the walk on a trading day: fetch_for_date is called; its old-format
\* download is made only when the new-format one fell through.  The rows of the
\* requested symbols are kept; NSEDataNotFoundError and NSEConnectionError
\* are caught and the walk goes on; any other exception leaves the call.
FetchDay(o_new, o_old) ==
    /\ fetch_pc = "walk"
    /\ current_date <= fetch_op.end
    /\ is_trading_day(current_date)
    /\ FallsThrough(o_new) <=> o_old # NotMade
    /\ day_fetches' = Append(day_fetches, current_date)
    /\ LET out == fetch_for_date(current_date, o_new, o_old) IN
       /\ yielded' = [x \in Symbols |->
                         IF x \in SeqToSet(fetch_op.symbols) /\ x \in out.symbols
                         THEN yielded[x] \cup {current_date} ELSE yielded[x]]
       /\ CASE out.kind = "table" ->
                 /\ all_data' = FanOut(all_data, fetch_op.symbols, out.symbols, current_date)
                 /\ current_date' = current_date + 1
                 /\ UNCHANGED <<errors, fetch_pc, fetch_result>>
            [] Swallowed(out.kind) ->
                 /\ errors' = IF fetch_op.name = "fetch_for_symbol"
                              THEN Append(errors, current_date) ELSE errors
                 /\ current_date' = current_date + 1
                 /\ UNCHANGED <<all_data, fetch_pc, fetch_result>>
            [] OTHER ->
                 /\ FetchDone([NoFetchResult EXCEPT !.kind = out.kind])
                 /\ UNCHANGED <<all_data, errors, current_date>>
    /\ UNCHANGED <<cache, fetch_op, phase, prev_fetch, cache_before>>
    /\ UNCHANGED <<now, pc, wake, shared, locals, history, ua_read, registry, extra>>

\* the symbols of the list that have rows
WithData(syms) == {x \in SeqToSet(syms) : all_data[x] # <<>>}

\* set_ohlc for each of the given symbols
RECURSIVE CacheAll(_, _)
CacheAll(c, todo) ==
    IF todo = {} THEN c
    ELSE LET x == CHOOSE y \in todo : TRUE IN
         CacheAll(set_ohlc(c, x, standardize_dataframe(all_data[x])), todo \ {x})

\* (mutant) fetch_bulk raises like fetch_for_symbol when it has no row
RaisesWhenEmptyAlways(name) == TRUE

\* `if not all_data: raise NSEDataNotFoundError` is in fetch_for_symbol only
RaisesWhenEmpty(name) == name = "fetch_for_symbol"

\* the walk is over.  fetch_for_symbol raises NSEDataNotFoundError when no
\* row was found; otherwise the rows are combined, standardized, cached and
\* returned.  fetch_bulk returns a table for every symbol, empty for a
\* symbol without rows, and caches the others.
EndWalk ==
    /\ fetch_pc = "walk"
    /\ current_date > fetch_op.end
    /\ IF RaisesWhenEmpty(fetch_op.name) /\ WithData(fetch_op.symbols) = {}
       THEN /\ FetchDone([NoFetchResult EXCEPT
                             !.kind = "NSEDataNotFoundError",
                             !.symbol = fetch_op.symbols[1],
                             !.date_range = <<fetch_op.start, fetch_op.end>>])
            /\ UNCHANGED cache
       ELSE /\ FetchDone([NoFetchResult EXCEPT
                             !.kind = IF fetch_op.name = "fetch_bulk" THEN "map" ELSE "frame",
                             !.keys = IF fetch_op.name = "fetch_bulk"
                                      THEN SeqToSet(fetch_op.symbols) ELSE {},
                             !.frames = [x \in Symbols |->
                                            IF x \in WithData(fetch_op.symbols)
                                            THEN standardize_dataframe(all_data[x])
                                            ELSE NoFrame],
                             !.source = "network"])
            /\ cache' = IF use_cache THEN CacheAll(cache, WithData(fetch_op.symbols)) ELSE cache
    /\ UNCHANGED <<fetch_op, current_date, all_data, errors, day_fetches, yielded,
                   phase, prev_fetch, cache_before>>
    /\ UNCHANGED <<now, pc, wake, shared, locals, history, ua_read, registry, extra>>

\* the first call is over and the caller goes on to its second call
FetchReturn ==
    /\ fetch_pc = "done"
    /\ phase = "first"
    /\ phase' = "second"
    /\ prev_fetch' = [op |-> fetch_op, result |-> fetch_result]
    /\ fetch_pc' = "idle"
    /\ fetch_op' = NoFetch
    /\ fetch_result' = NoFetchResult
    /\ current_date' = 0
    /\ all_data' = [x \in Symbols |-> <<>>]
    /\ errors' = <<>>
    /\ day_fetches' = <<>>
    /\ yielded' = [x \in Symbols |-> {}]
    /\ UNCHANGED <<cache, cache_before>>
    /\ UNCHANGED <<now, pc, wake, shared, locals, history, ua_read, registry, extra>>

InitFetch == InitSession(StartTime, 0)

NextFetch ==
    \/ \E sym \in Requested, s \in Days, e \in Days : FetchForSymbol(sym, s, e)
    \/ \E syms \in BulkLists, s \in Days, e \in Days : FetchBulk(syms, s, e)
    \/ SkipDay
    \/ \E o_new \in DownloadOutcomes, o_old \in DownloadOutcomes \cup {NotMade} :
          FetchDay(o_new, o_old)
    \/ EndWalk
    \/ FetchReturn

\* Two calls of the scraper, one after the other, each fetch_for_symbol or
\* fetch_bulk over any range of the calendar, against any behaviour of the
\* downloads.
SpecFetch == InitFetch /\ [][NextFetch]_vars

\* ------------------------------------------------------------ fetch_bulk alone
\* symbol lists of one, two and three entries, as callers may write them
BulkArgs == {<<"A">>, <<" a", "B">>, <<"b ", "A", " A">>}

NextBulk ==
    \/ \E syms \in BulkArgs, s \in Days, e \in Days : FetchBulk(syms, s, e)
    \/ SkipDay
    \/ \E o_new \in DownloadOutcomes, o_old \in DownloadOutcomes \cup {NotMade} :
          FetchDay(o_new, o_old)
    \/ EndWalk

\* One fetch_bulk call for a list of one, two or three symbols over any
\* range, against any behaviour of the downloads.
SpecBulk == InitFetch /\ [][NextBulk]_vars

\* ------------------------------------------------------------ fetch_for_date
\* fetch_for_date has returned or raised
DateDone(r) ==
    /\ fd_pc' = "done"
    /\ fd_result' = r

\* raise NSEDataNotFoundError(... {trade_date} ...)
DateNotFound(d) ==
    [kind |-> "NSEDataNotFoundError", symbols |-> {}, format |-> "none", date |-> d]

\* fetch_for_date up to its first download, lines 221-239: a weekend day and
\* a day after today raise NSEDataNotFoundError at once
FetchForDate(d) ==
    /\ fd_pc = "idle"
    /\ fd_calls < MaxOps
    /\ fd_calls' = fd_calls + 1
    /\ fd_date' = d
    /\ IF ~is_trading_day(d) \/ d > Today
       THEN DateDone(DateNotFound(d))
       ELSE /\ fd_pc' = "new"
            /\ UNCHANGED fd_result
    /\ UNCHANGED <<fd_requests, fd_new, fd_old>>
    /\ UNCHANGED <<now, pc, wake, shared, locals, history, ua_read, registry, scraper,
                   cache_fault, store, rest>>

\* lines 242-249: the new-format URL is downloaded and parsed.  A table with
\* rows is returned; an empty table and a caught error go on to the old
\* format; any other exception leaves fetch_for_date.
DownloadNew(o) ==
    /\ fd_pc = "new"
    /\ fd_requests' = Append(fd_requests, "new")
    /\ fd_new' = o
    /\ IF o.kind = "table"
       THEN DateDone([kind |-> "table", symbols |-> o.symbols, format |-> "new",
                      date |-> fd_date])
       ELSE IF FallsThrough(o)
       THEN /\ fd_pc' = "old"
            /\ UNCHANGED fd_result
       ELSE DateDone([kind |-> o.kind, symbols |-> {}, format |-> "none", date |-> 0])
    /\ UNCHANGED <<fd_date, fd_old, fd_calls>>
    /\ UNCHANGED <<now, pc, wake, shared, locals, history, ua_read, registry, scraper,
                   cache_fault, store, rest>>

\* lines 252-264: the old-format URL is downloaded and parsed; when it gives
\* no rows either, NSEDataNotFoundError is raised
DownloadOld(o) ==
    /\ fd_pc = "old"
    /\ fd_requests' = Append(fd_requests, "old")
    /\ fd_old' = o
    /\ IF o.kind = "table"
       THEN DateDone([kind |-> "table", symbols |-> o.symbols, format |-> "old",
                      date |-> fd_date])
       ELSE IF FallsThrough(o)
       THEN DateDone(DateNotFound(fd_date))
       ELSE DateDone([kind |-> o.kind, symbols |-> {}, format |-> "none", date |-> 0])
    /\ UNCHANGED <<fd_date, fd_new, fd_calls>>
    /\ UNCHANGED <<now, pc, wake, shared, locals, history, ua_read, registry, scraper,
                   cache_fault, store, rest>>

\* the caller has the result and may call again
DateReturn ==
    /\ fd_pc = "done"
    /\ fd_pc' = "idle"
    /\ fd_date' = 0
    /\ fd_requests' = <<>>
    /\ fd_new' = NotMade
    /\ fd_old' = NotMade
    /\ fd_result' = NoDateResult
    /\ UNCHANGED fd_calls
    /\ UNCHANGED <<now, pc, wake, shared, locals, history, ua_read, registry, scraper,
                   cache_fault, store, rest>>

NextDate ==
    \/ \E d \in DateArgs : FetchForDate(d)
    \/ \E o \in DownloadOutcomes : DownloadNew(o)
    \/ \E o \in DownloadOutcomes : DownloadOld(o)
    \/ DateReturn

\* Direct calls of fetch_for_date, one after the other, for any day of the
\* calendar or after it, against any behaviour of the two downloads.
SpecDate == InitFetch /\ [][NextDate]_vars

\* ------------------------------------------------------------ cache
\* DELETE FROM table WHERE ...
DeleteWhere(t, Gone(_)) == [r \in {x \in DOMAIN t : ~Gone(x)} |-> t[r]]

\* the rows of a table that satisfy a condition, counted
CountWhere(t, Is(_)) == BagCardinality([r \in {x \in DOMAIN t : Is(x)} |-> t[r]])

\* (mutant) INSERT into a table without its UNIQUE constraint
insert_plain(t, row) == t (+) SetToBag({row})

\* INSERT OR REPLACE: the rows that conflict with the new row on the UNIQUE
\* columns (field key) are deleted and the row is inserted
insert_or_replace(t, row) ==
    LET Conflicts(x) == x.key = row.key IN DeleteWhere(t, Conflicts) (+) SetToBag({row})

\* the for loop of set_ohlc, lines 215-237: one INSERT OR REPLACE per row
RECURSIVE write_rows(_, _, _)
write_rows(t, symbol, rows) ==
    IF rows = <<>> THEN t
    ELSE write_rows(insert_or_replace(t, [key |-> <<symbol, trade_date_str(Head(rows).date)>>,
                                          close |-> Head(rows).close]),
                    symbol, Tail(rows))

\* NSECache.get_ohlc on the table: the rows of the symbol in [start, end],
\* ORDER BY trade_date ASC, or None (<<>>) when there is none
get_ohlc_rows(t, sym, start, end) ==
    LET hit == {r \in BagToSet(t) : r.key[1] = upper(sym) /\ start <= r.key[2] /\ r.key[2] <= end}
    IN IF hit = {} THEN <<>>
       ELSE LET days == SortedSeq({r.key[2] : r \in hit}) IN
            [i \in 1..Len(days) |-> CHOOSE r \in hit : r.key[2] = days[i]]

\* conn.commit() of _cursor: what the connection sees becomes durable
Commit ==
    committed' = [ohlc |-> ohlc_data', index |-> index_data', metadata |-> metadata_cache']

\* conn.rollback() of _cursor: the connection sees the durable state again
Rollback ==
    /\ ohlc_data' = committed.ohlc
    /\ index_data' = committed.index
    /\ metadata_cache' = committed.metadata
    /\ UNCHANGED committed

\* a cache operation is called
CacheCall(r) ==
    /\ cache_ops < MaxCacheOps
    /\ cache_ops' = cache_ops + 1
    /\ cache_result' = r

\* the value the latest row of the frame with the given trade date carries
LastValue(frame, day) ==
    LET i == CHOOSE k \in 1..Len(frame) :
                 /\ trade_date_str(frame[k].date) = day
                 /\ \A j \in (k + 1)..Len(frame) : trade_date_str(frame[j].date) # day
    IN frame[i].close

\* NSECache.set_ohlc.  An empty frame returns before the database is touched.
\* Otherwise the rows are written in one transaction: commit when all are
\* written; when the execute of row `at` raises sqlite3.Error, rollback and
\* NSECacheError; when another exception is raised there, it leaves set_ohlc
\* with neither commit nor rollback (except sqlite3.Error, line 119).
SetOhlc(sym, frame, fail) ==
    LET symbol == upper(sym)
        days == {trade_date_str(frame[i].date) : i \in 1..Len(frame)}
        replaced == LET Hit(x) == x.key[1] = symbol /\ x.key[2] \in days
                    IN CountWhere(ohlc_data, Hit)
    IN
    /\ fail \in Failures(frame)
    /\ CASE frame = <<>> ->
              /\ CacheCall([NoCacheResult EXCEPT !.op = "set_ohlc", !.symbol = sym,
                                                  !.kind = "returned"])
              /\ UNCHANGED <<ohlc_data, index_data, metadata_cache, committed, latest>>
         [] frame # <<>> /\ fail = NoFailure ->
              /\ CacheCall([NoCacheResult EXCEPT !.op = "set_ohlc", !.symbol = sym,
                                                  !.kind = "returned", !.count = replaced])
              /\ ohlc_data' = write_rows(ohlc_data, symbol, frame)
              /\ UNCHANGED <<index_data, metadata_cache>>
              /\ Commit
              /\ latest' = [k \in OhlcKeys |->
                               IF k[1] = symbol /\ k[2] \in days
                               THEN LastValue(frame, k[2]) ELSE latest[k]]
         [] frame # <<>> /\ fail.kind = "sqlite3.Error" ->
              /\ CacheCall([NoCacheResult EXCEPT !.op = "set_ohlc", !.symbol = sym,
                                                  !.kind = "NSECacheError", !.count = fail.at - 1])
              /\ Rollback
              /\ UNCHANGED latest
         [] frame # <<>> /\ fail.kind = "other" ->
              /\ CacheCall([NoCacheResult EXCEPT !.op = "set_ohlc", !.symbol = sym,
                                                  !.kind = "other", !.count = fail.at - 1])
              /\ ohlc_data' = write_rows(ohlc_data, symbol, SubSeq(frame, 1, fail.at - 1))
              /\ UNCHANGED <<index_data, metadata_cache, committed, latest>>
    /\ UNCHANGED stored
    /\ UNCHANGED <<now, pc, wake, shared, locals, history, ua_read, registry, scraper,
                   cache_fault, dateop, rest>>

\* NSECache.set_index_data for a frame of one row
SetIndexData(name, day, v) ==
    /\ CacheCall([NoCacheResult EXCEPT !.op = "set_index_data", !.symbol = name,
                                        !.kind = "returned"])
    /\ index_data' = insert_or_replace(index_data, [key |-> <<upper(name), day>>, close |-> v])
    /\ UNCHANGED <<ohlc_data, metadata_cache>>
    /\ Commit
    /\ UNCHANGED <<latest, stored>>
    /\ UNCHANGED <<now, pc, wake, shared, locals, history, ua_read, registry, scraper,
                   cache_fault, dateop, rest>>

\* (mutant) clear_symbol without symbol.upper()
clear_symbol_raw(sym) == sym

\* clear_symbol, line 513: the symbol whose rows are deleted
clear_symbol_key(sym) == upper(sym)

\* NSECache.clear_symbol
ClearSymbol(sym) ==
    LET Gone(x) == x.key[1] = clear_symbol_key(sym) IN
    /\ CacheCall([NoCacheResult EXCEPT !.op = "clear_symbol", !.symbol = sym,
                                        !.kind = "returned",
                                        !.count = CountWhere(ohlc_data, Gone)])
    /\ ohlc_data' = DeleteWhere(ohlc_data, Gone)
    /\ UNCHANGED <<index_data, metadata_cache>>
    /\ Commit
    /\ latest' = [k \in OhlcKeys |-> IF k[1] = upper(sym) THEN NoValue ELSE latest[k]]
    /\ UNCHANGED stored
    /\ UNCHANGED <<now, pc, wake, shared, locals, history, ua_read, registry, scraper,
                   cache_fault, dateop, rest>>

\* NSECache.clear_all
ClearAll ==
    /\ CacheCall([NoCacheResult EXCEPT !.op = "clear_all", !.kind = "returned",
                                        !.count = BagCardinality(ohlc_data)])
    /\ ohlc_data' = EmptyBag
    /\ index_data' = EmptyBag
    /\ metadata_cache' = EmptyBag
    /\ Commit
    /\ latest' = [k \in OhlcKeys |-> NoValue]
    /\ stored' = [k \in MetaKeys |-> NoData]
    /\ UNCHANGED <<now, pc, wake, shared, locals, history, ua_read, registry, scraper,
                   cache_fault, dateop, rest>>

\* NSECache.set_metadata: expiry = now + ttl, the data as JSON text
SetMetadata(key, v, ttl) ==
    /\ CacheCall([NoCacheResult EXCEPT !.op = "set_metadata", !.key = key,
                                        !.kind = "returned"])
    /\ metadata_cache' = insert_or_replace(metadata_cache,
                              [key |-> key, data |-> json_dumps(v), expiry |-> now + ttl])
    /\ UNCHANGED <<ohlc_data, index_data>>
    /\ Commit
    /\ stored' = [stored EXCEPT ![key] = v]
    /\ UNCHANGED latest
    /\ UNCHANGED <<now, pc, wake, shared, locals, history, ua_read, registry, scraper,
                   cache_fault, dateop, rest>>

\* Python None, as a value returned
PyNone == [py |-> "None", items |-> <<>>]

\* (mutant) an entry counts as expired from the instant of its expiry on
ExpiredAtExpiry(row, t) == row.expiry <= t

\* get_metadata, line 482: row["expiry"] < datetime.now().timestamp()
Expired(row, t) == row.expiry < t

\* NSECache.get_metadata: None when there is no row; an expired row is
\* deleted (delete_metadata) and None returned; otherwise json.loads of the
\* stored text
GetMetadata(key) ==
    LET hit == {r \in BagToSet(metadata_cache) : r.key = key}
        Gone(x) == x.key = key
    IN
    /\ IF hit = {}
       THEN /\ CacheCall([NoCacheResult EXCEPT !.op = "get_metadata", !.key = key,
                                               !.kind = "returned", !.data = PyNone])
            /\ UNCHANGED metadata_cache
       ELSE LET row == CHOOSE r \in hit : TRUE IN
            IF Expired(row, now)
            THEN /\ CacheCall([NoCacheResult EXCEPT !.op = "get_metadata", !.key = key,
                                                    !.kind = "returned", !.data = PyNone,
                                                    !.count = 1])
                 /\ metadata_cache' = DeleteWhere(metadata_cache, Gone)
            ELSE /\ CacheCall([NoCacheResult EXCEPT !.op = "get_metadata", !.key = key,
                                                    !.kind = "returned",
                                                    !.data = json_loads(row.data)])
                 /\ UNCHANGED metadata_cache
    /\ UNCHANGED <<ohlc_data, index_data>>
    /\ Commit
    /\ UNCHANGED <<latest, stored>>
    /\ UNCHANGED <<now, pc, wake, shared, locals, history, ua_read, registry, scraper,
                   cache_fault, dateop, rest>>

\* NSECache.delete_metadata
DeleteMetadata(key) ==
    LET Gone(x) == x.key = key IN
    /\ CacheCall([NoCacheResult EXCEPT !.op = "delete_metadata", !.key = key,
                                        !.kind = "returned"])
    /\ metadata_cache' = DeleteWhere(metadata_cache, Gone)
    /\ UNCHANGED <<ohlc_data, index_data>>
    /\ Commit
    /\ UNCHANGED <<latest, stored>>
    /\ UNCHANGED <<now, pc, wake, shared, locals, history, ua_read, registry, scraper,
                   cache_fault, dateop, rest>>

\* NSECache.clear_expired: DELETE ... WHERE expiry < now, and the row count
ClearExpired ==
    LET Gone(x) == x.expiry < now IN
    /\ CacheCall([NoCacheResult EXCEPT !.op = "clear_expired", !.kind = "returned",
                                        !.count = CountWhere(metadata_cache, Gone)])
    /\ metadata_cache' = DeleteWhere(metadata_cache, Gone)
    /\ UNCHANGED <<ohlc_data, index_data>>
    /\ Commit
    /\ UNCHANGED <<latest, stored>>
    /\ UNCHANGED <<now, pc, wake, shared, locals, history, ua_read, registry, scraper,
                   cache_fault, dateop, rest>>

\* a second passes between two cache operations
CacheClock ==
    /\ now < StartTime + MaxCacheOps * Second
    /\ now' = now + Second
    /\ UNCHANGED <<pc, wake, shared, locals, history, apart>>

\* the value of every metadata entry of the other specifications
SomeDict == [py |-> "dict", items |-> <<1, 2>>]

NextOhlc ==
    \/ \E sym \in CacheSymbols, frame \in OhlcFrames : SetOhlc(sym, frame, NoFailure)
    \/ \E name \in IndexNames : SetIndexData(name, 1, 1)
    \/ \E key \in MetaKeys : SetMetadata(key, SomeDict, Second)
    \/ \E sym \in CacheSymbols : ClearSymbol(sym)
    \/ ClearAll

\* Any sequence of up to MaxCacheOps cache operations that write or clear,
\* on a new database, every one of them succeeding.
SpecOhlc == InitFetch /\ [][NextOhlc]_vars

NextOhlcFault ==
    \/ \E sym \in CacheSymbols, frame \in OhlcFrames :
          \E fail \in Failures(frame) : SetOhlc(sym, frame, fail)
    \/ \E sym \in CacheSymbols : ClearSymbol(sym)

\* set_ohlc and clear_symbol calls on a new database, where a set_ohlc call
\* may fail at any of its rows.
SpecOhlcFault == InitFetch /\ [][NextOhlcFault]_vars

NextMeta ==
    \/ \E key \in MetaKeys, v \in PyValues, ttl \in Ttls : SetMetadata(key, v, ttl)
    \/ \E key \in MetaKeys : GetMetadata(key)
    \/ \E key \in MetaKeys : DeleteMetadata(key)
    \/ ClearExpired
    \/ CacheClock

\* Metadata operations on a new database, with time passing between them.
SpecMeta == InitFetch /\ [][NextMeta]_vars

\* ------------------------------------------------------------ get_metadata beside set_metadata
\* get_metadata, lines 469-477, on the reading thread's connection: the
\* SELECT in its own transaction, which fetches the row of the key if any
GetMetadataSelect(key) ==
    /\ gm_pc \in {"idle", "done"}
    /\ CacheCall([NoCacheResult EXCEPT !.op = "get_metadata", !.key = key,
                                        !.kind = "running"])
    /\ gm_pc' = "read"
    /\ gm_key' = key
    /\ gm_row' = LET hit == {r \in BagToSet(metadata_cache) : r.key = key}
                 IN IF hit = {} THEN <<>> ELSE <<CHOOSE r \in hit : TRUE>>
    /\ UNCHANGED <<ohlc_data, index_data, metadata_cache>>
    /\ Commit
    /\ UNCHANGED <<latest, stored>>
    /\ UNCHANGED <<now, pc, wake, shared, locals, history, ua_read, registry, scraper,
                   cache_fault, dateop, valid, filtered, built>>

\* get_metadata, lines 479-490: None when no row was fetched; when the row
\* fetched is expired, delete_metadata(key), a DELETE by key in a second
\* transaction, and None; otherwise json.loads of the row fetched
GetMetadataFinish ==
    LET Gone(x) == x.key = gm_key
        expired == gm_row # <<>> /\ Expired(gm_row[1], now)
    IN
    /\ gm_pc = "read"
    /\ gm_pc' = "done"
    /\ cache_result' = [cache_result EXCEPT
                           !.kind = "returned",
                           !.count = IF expired THEN CountWhere(metadata_cache, Gone) ELSE 0,
                           !.data = IF gm_row = <<>> \/ expired THEN PyNone
                                    ELSE json_loads(gm_row[1].data)]
    /\ metadata_cache' = IF expired THEN DeleteWhere(metadata_cache, Gone) ELSE metadata_cache
    /\ UNCHANGED <<ohlc_data, index_data>>
    /\ Commit
    /\ UNCHANGED <<latest, stored, cache_ops, gm_key, gm_row>>
    /\ UNCHANGED <<now, pc, wake, shared, locals, history, ua_read, registry, scraper,
                   cache_fault, dateop, valid, filtered, built>>

NextRace ==
    \/ \E key \in MetaKeys, ttl \in Ttls : SetMetadata(key, SomeDict, ttl)
    \/ \E key \in MetaKeys : GetMetadataSelect(key)
    \/ GetMetadataFinish
    \/ CacheClock

\* One thread calling get_metadata while another calls set_metadata, each on
\* its own connection to the database, with time passing.
SpecRace == InitFetch /\ [][NextRace]_vars

\* ------------------------------------------------------------ fetch_for_symbol with a series filter
\* `if self._use_cache and self._cache`, line 311: whatever the series argument
CacheRead(series) == use_cache

\* fetch_for_symbol(symbol, s, e, series) for one symbol, the snapshots of
\* the trading days being snap.  The cache check of lines 311-320 looks at
\* the symbol and the dates only; the walk keeps the rows fetch_for_date
\* lets through filter_by_series; set_ohlc stores them under (symbol, date).
\* A row is written as its date and the series of its snapshot row.
FetchWithSeries(s, e, series, snap) ==
    LET r == validate_date_range(s, e)
        cached == {d \in Days : sr_cache[d] # "none"}
        inrange == {d \in cached : r.start <= d /\ d <= r.end}
        covers == /\ CacheRead(series)
                  /\ inrange # {}
                  /\ \E d \in cached : d <= r.start
                  /\ \E d \in cached : d >= r.end
        found == {d \in TradingDays : /\ r.start <= d /\ d <= r.end
                                      /\ snap[d] \in SeriesNames
                                      /\ filter_by_series(snap[d], series)}
        RowsOf(days, from) == LET q == SortedSeq(days)
                              IN [i \in 1..Len(q) |-> [date |-> q[i], series |-> from[q[i]]]]
    IN
    /\ sr_phase \in {"none", "first"}
    /\ sr_phase' = IF sr_phase = "none" THEN "first" ELSE "second"
    /\ CASE ~r.ok ->
              /\ sr_result' = [NoSeriesResult EXCEPT !.kind = "NSEInvalidDateError",
                                                      !.series = series]
              /\ UNCHANGED sr_cache
         [] r.ok /\ covers ->
              /\ sr_result' = [kind |-> "frame", source |-> "cache", series |-> series,
                               rows |-> RowsOf(inrange, sr_cache)]
              /\ UNCHANGED sr_cache
         [] r.ok /\ ~covers /\ found = {} ->
              /\ sr_result' = [NoSeriesResult EXCEPT !.kind = "NSEDataNotFoundError",
                                                      !.series = series]
              /\ UNCHANGED sr_cache
         [] r.ok /\ ~covers /\ found # {} ->
              /\ sr_result' = [kind |-> "frame", source |-> "network", series |-> series,
                               rows |-> RowsOf(found, snap)]
              /\ sr_cache' = [d \in Days |-> IF use_cache /\ d \in found THEN snap[d]
                                              ELSE sr_cache[d]]
    /\ UNCHANGED <<now, pc, wake, shared, locals, history, ua_read, registry, scraper,
                   cache_fault, dateop, store, valid, reader, built>>

NextSeries ==
    \E s \in Days, e \in Days, series \in SeriesArgs, snap \in [TradingDays -> DayContents] :
        s <= e /\ FetchWithSeries(s, e, series, snap)

\* Two fetch_for_symbol calls for one symbol, one after the other, each with
\* the default series or with ["BL"], over any range.
SpecSeries == InitFetch /\ [][NextSeries]_vars

\* ------------------------------------------------------------ get_ohlc
\* a value missing from a frame
NaN == -1

\* dict(row) of a selected row: keyed by the column names of the SELECT
RowDict(r) == [trade_date |-> r.key[2], close |-> r.close]

\* pd.DataFrame(dicts, columns=...): a listed column takes the value each
\* dict holds under its name and is missing where the dict has no such key;
\* keys that are not listed are dropped
DataFrame(dicts, columns) ==
    [i \in 1..Len(dicts) |->
        [c \in columns |-> IF c \in DOMAIN dicts[i] THEN dicts[i][c] ELSE NaN]]

\* df.rename(columns={old: new}) on one row: a column that is not there is
\* not renamed
rename(row, old, new) ==
    IF old \in DOMAIN row
    THEN [c \in (DOMAIN row \ {old}) \cup {new} |-> IF c = new THEN row[old] ELSE row[c]]
    ELSE row

\* pd.to_datetime of a column value: a missing value becomes NaT
to_datetime(x) == IF x = NaN THEN NaT ELSE x

\* get_ohlc, lines 286-294: the frame built from the selected rows
ohlc_frame(rows) ==
    LET dicts == [i \in 1..Len(rows) |-> RowDict(rows[i])]
        df == DataFrame(dicts, {"date", "close"})
    IN [i \in 1..Len(df) |->
           LET row == rename(df[i], "trade_date", "date")
           IN [row EXCEPT !.date = to_datetime(row.date)]]

\* NSECache.get_ohlc: None when the SELECT gives no row, else the frame
GetOhlc(sym, start, end) ==
    LET rows == get_ohlc_rows(ohlc_data, sym, start, end) IN
    /\ CacheCall([NoCacheResult EXCEPT
                    !.op = "get_ohlc", !.symbol = sym, !.kind = "returned",
                    !.range = <<start, end>>, !.count = Len(rows),
                    !.data = IF rows = <<>> THEN PyNone
                             ELSE [py |-> "DataFrame", items |-> ohlc_frame(rows)]])
    /\ UNCHANGED <<ohlc_data, index_data, metadata_cache>>
    /\ Commit
    /\ UNCHANGED <<latest, stored>>
    /\ UNCHANGED <<now, pc, wake, shared, locals, history, ua_read, registry, scraper,
                   cache_fault, dateop, rest>>

NextRead ==
    \/ \E sym \in CacheSymbols, frame \in OhlcFrames : SetOhlc(sym, frame, NoFailure)
    \/ \E sym \in CacheSymbols : ClearSymbol(sym)
    \/ \E sym \in CacheSymbols, start \in CacheDays, end \in CacheDays :
          GetOhlc(sym, start, end)

\* set_ohlc, clear_symbol and get_ohlc calls on a new database.
SpecRead == InitFetch /\ [][NextRead]_vars

\* ------------------------------------------------------------ validate_date_range
\* utils.validate_date_range(start_date, end_date) is called, allow_future
\* being False: it returns the validated pair or raises NSEInvalidDateError
ValidateDateRange(s, e) ==
    LET r == validate_date_range(s, e) IN
    /\ vd_calls < MaxOps
    /\ vd_calls' = vd_calls + 1
    /\ vd_start' = s
    /\ vd_end' = e
    /\ vd_result' = IF r.ok
                    THEN [kind |-> "returned", start |-> r.start, end |-> r.end]
                    ELSE [kind |-> "NSEInvalidDateError", start |-> 0, end |-> 0]
    /\ UNCHANGED <<now, pc, wake, shared, locals, history, ua_read, registry, scraper,
                   cache_fault, dateop, store, reader, filtered, built>>

NextValid == \E s \in ValidArgs, e \in ValidArgs : ValidateDateRange(s, e)

\* validate_date_range called with any pair of dates.
SpecValid == InitFetch /\ [][NextValid]_vars

\* ------------------------------------------------------------ cache failures
\* the listed symbols in the order of their first occurrence: the keys of
\* symbol_data in dict order
RECURSIVE DictKeys(_)
DictKeys(q) ==
    IF q = <<>> THEN <<>>
    ELSE LET r == DictKeys(SubSeq(q, 1, Len(q) - 1)) IN
         IF q[Len(q)] \in SeqToSet(r) THEN r ELSE Append(r, q[Len(q)])

\* the symbols set_ohlc is called for after the walk, in the order of the calls
CacheWrites ==
    LET HasRows(x) == all_data[x] # <<>> IN SelectSeq(DictKeys(fetch_op.symbols), HasRows)

\* fetch_for_symbol when the cache read of lines 312-315 fails: _cursor turns
\* the sqlite3.Error into NSECacheError and nothing in fetch_for_symbol
\* catches it, so the call ends before the walk.
CacheReadFails(sym, s, e) ==
    /\ fetch_pc = "idle"
    /\ use_cache
    /\ validate_date_range(s, e).ok
    /\ fetch_op' = [name |-> "fetch_for_symbol", requested |-> <<sym>>,
                    symbols |-> <<upper(strip(sym))>>,
                    start |-> validate_date_range(s, e).start,
                    end |-> validate_date_range(s, e).end]
    /\ FetchDone([NoFetchResult EXCEPT !.kind = "NSECacheError"])
    /\ cache_fault' = "read"
    /\ cache_before' = cache
    /\ all_data' = [x \in Symbols |-> <<>>]
    /\ errors' = <<>>
    /\ day_fetches' = <<>>
    /\ yielded' = [x \in Symbols |-> {}]
    /\ UNCHANGED <<cache, current_date, phase, prev_fetch>>
    /\ UNCHANGED <<now, pc, wake, shared, locals, history, ua_read, registry, dateop, store, rest>>

\* the walk is over and the n-th set_ohlc of lines 366 / 450 fails: its
\* transaction is rolled back, the set_ohlc calls before it have committed,
\* and the NSECacheError leaves fetch_for_symbol / fetch_bulk in place of
\* the rows.
CacheWriteFails(n) ==
    /\ fetch_pc = "walk"
    /\ current_date > fetch_op.end
    /\ use_cache
    /\ n \in 1..Len(CacheWrites)
    /\ cache' = CacheAll(cache, SeqToSet(SubSeq(CacheWrites, 1, n - 1)))
    /\ FetchDone([NoFetchResult EXCEPT !.kind = "NSECacheError"])
    /\ cache_fault' = "write"
    /\ UNCHANGED <<fetch_op, current_date, all_data, errors, day_fetches, yielded,
                   phase, prev_fetch, cache_before>>
    /\ UNCHANGED <<now, pc, wake, shared, locals, history, ua_read, registry, dateop, store, rest>>

NextFault ==
    \/ \E sym \in Requested, s \in Days, e \in Days : FetchForSymbol(sym, s, e)
    \/ \E syms \in BulkLists, s \in Days, e \in Days : FetchBulk(syms, s, e)
    \/ SkipDay
    \/ \E o_new \in DownloadOutcomes, o_old \in DownloadOutcomes \cup {NotMade} :
          FetchDay(o_new, o_old)
    \/ EndWalk
    \/ \E sym \in Requested, s \in Days, e \in Days : CacheReadFails(sym, s, e)
    \/ \E n \in 1..Cardinality(Symbols) : CacheWriteFails(n)

\* One call of the scraper on an empty cache, in which a cache operation
\* may fail.
SpecFault == InitFetch /\ [][NextFault]_vars

\* ------------------------------------------------------------ properties
\* the kind of failure an attempt's outcome stands for
FailureKind(o) ==
    CASE o.kind = "Timeout" -> "Timeout"
      [] o.kind = "ConnectionError" -> "ConnectionError"
      [] o.kind = "response" /\ o.status \in {401, 403} -> "NSESessionError"
      [] o.kind = "response" /\ o.status = 429 -> "NSERateLimitError"
      [] OTHER -> "None"

NSEErrorKinds == {"NSEConnectionError", "NSESessionError", "NSERateLimitError",
                  "NSEDataNotFoundError", "NSEInvalidSymbolError", "NSEInvalidDateError",
                  "NSECacheError", "NSEParseError"}

\* C1 (as stated): one call of get/post sends the target request at most
\* MAX_RETRIES times in total, the first attempt included.
C1_AtMostMaxRetriesSends == sends[Main] <= MAX_RETRIES

\* C1 (amended): one call of get/post makes at most MAX_RETRIES + 1 attempts
\* (calls of the requests session for the target): the first attempt and up
\* to MAX_RETRIES retries.
C1_AtMostMaxRetriesPlusOneSends == sends[Main] <= MAX_RETRIES + 1

C1_FourthAttemptSent == InFlight(Main) /\ sends[Main] = MAX_RETRIES + 1

\* C2: whenever a request is sent to the target, first attempt or retry, the
\* latest successful handshake is at most SESSION_REFRESH_INTERVAL old.
C2_HandshakeFreshAtSend ==
    InFlight(Main) =>
        sent_at[Main] - session_created_time <= SESSION_REFRESH_INTERVAL

\* C3: a handshake that fails during a get/post call, before the first
\* attempt or after a 401/403, ends the call at once with NSESessionError.
C3_HandshakeFailureEndsCall ==
    hs_failed[Main] =>
        pc[Main] = "done" /\ result[Main].kind = "NSESessionError"

C5_PassesSpaced ==
    \A i, j \in 1..Len(rl_log) :
        i < j => rl_log[j] - rl_log[i] >= (j - i) * MIN_REQUEST_DELAY

C5_ContendedPass ==
    /\ Len(rl_log) >= 2
    /\ \E t, u \in Threads : pc[t] = "rl_sleep" /\ pc[u] = "rl_wait"

\* C6: after an attempt answered 401 or 403, exactly one handshake is made
\* before the next attempt, and the next attempt follows without any sleep.
C6_OneHandshakeNoSleepAfterAuth ==
    /\ InFlight(Main)
    /\ prev[Main].kind = "response"
    /\ prev[Main].status \in {401, 403}
    => /\ gap[Main].hs = 1
       /\ gap[Main].sleeps = <<>>
       /\ passes[Main] = 1

C6_RetryAfter403 ==
    /\ InFlight(Main)
    /\ prev[Main].status = 403
    /\ sends[Main] = 2
    /\ gap[Main].hs = 1

\* the sleeps the retry loop owes a 429 response with header h
RetryAfterSleeps(h) ==
    IF FloatOk(h) /\ ParseRetryAfter(h) > 0 THEN <<ParseRetryAfter(h)>> ELSE <<>>

\* C7: after an attempt answered 429 the loop sleeps exactly the Retry-After
\* value (60 s without the header) before the next attempt, and a call whose
\* last attempt was answered 429 ends with NSEConnectionError.
C7_RetryAfterHonoured ==
    /\ prev[Main].kind = "response"
    /\ prev[Main].status = 429
    /\ InFlight(Main) \/ pc[Main] = "done"
    => /\ gap[Main].sleeps = RetryAfterSleeps(prev[Main].retry_after)
       /\ pc[Main] = "done" => result[Main].kind = "NSEConnectionError"

\* the call ended on the response it just received, with NSEConnectionError
\* carrying that status, and nothing followed the response
EndedOnResponse ==
    /\ pc[Main] = "done"
    /\ result[Main].kind = "NSEConnectionError"
    /\ result[Main].status = prev[Main].status
    /\ gap[Main] = NoGap

C9_DetailsDescribeLastFailure ==
    /\ pc[Main] = "done"
    /\ result[Main].message = "Failed to connect to NSE after multiple retries"
    => result[Main].details = FailureKind(prev[Main])

\* C10: whatever the server answers, a call returns a response or raises one
\* of the library's NSEError kinds.
C10_OnlyNSEErrors ==
    pc[Main] = "done" => result[Main].kind \in NSEErrorKinds \cup {"response"}

\* C11: after close(), a later call through the same session object makes a
\* fresh handshake and sends the request; it does not fail because the
\* session was closed.
C11_UseAfterCloseRehandshakes ==
    pc[Main] = "done" /\ session = "none" =>
        result[Main].message # "Session not initialized"

\* C12: when several threads call get on an expired handshake, a single
\* re-handshake is made while the others wait: two handshakes never run at
\* the same time.
C12_OneRehandshakeAtATime ==
    Cardinality({t \in Threads : pc[t] = "refresh"}) <= 1

\* C13: a thread that is between the read and the write of the user-agent
\* index holds the session's mutex, so no two threads are in that window at
\* the same time.
C13_WritesUnderMutex ==
    /\ \A t \in Threads : pc[t] = "headers" => request_lock = t
    /\ Cardinality({t \in Threads : pc[t] = "headers"}) <= 1

TradingDaysIn(start, end) == {d \in start..end : is_trading_day(d)}

\* the current call is fetch_for_symbol and has walked the range
WalkedForSymbol ==
    /\ fetch_pc = "done"
    /\ fetch_op.name = "fetch_for_symbol"
    /\ fetch_result.source # "cache"

\* the current call is fetch_for_symbol with the arguments of the call before
\* it, which returned rows
RepeatsFetch ==
    /\ fetch_op.name = "fetch_for_symbol"
    /\ prev_fetch.op = fetch_op
    /\ prev_fetch.result.kind = "frame"

\* C15: fetch_for_symbol answers from the cache only when no trading day of
\* the range is missing from the cache between cached rows of the symbol.
C15_CacheServesOnlyContiguous ==
    fetch_pc = "done" /\ fetch_result.source = "cache" =>
        ~\E d \in TradingDaysIn(fetch_op.start, fetch_op.end) :
            /\ <<fetch_op.symbols[1], d>> \notin cache
            /\ \E b \in Days : b < d /\ <<fetch_op.symbols[1], b>> \in cache
            /\ \E a \in Days : a > d /\ <<fetch_op.symbols[1], a>> \in cache

\* C16: once fetch_for_symbol(S, start, end) has returned rows, the same call
\* made again calls fetch_for_date for no day, whatever the range.
C16_RepeatedCallFetchesNothing ==
    RepeatsFetch => fetch_pc # "walk" /\ day_fetches = <<>>

\* C17: the rows of a call answered from the cache are the rows the call
\* answered from the network returned for the same symbol and range: same
\* dates, same columns, same values.
C17_CacheServedRowsIdentical ==
    /\ RepeatsFetch
    /\ prev_fetch.result.source = "network"
    /\ fetch_pc = "done"
    /\ fetch_result.source = "cache"
    => fetch_result.frames = prev_fetch.result.frames

\* C18: when the days that fail in a walk of fetch_for_symbol raise
\* NSEDataNotFoundError or NSEConnectionError and some day holds a row of
\* the symbol, the call returns the rows of exactly the days that held one,
\* in ascending order, and raises nothing.
C18_PartialDaysTolerated ==
    /\ WalkedForSymbol
    /\ fetch_result.kind # "NSESessionError"
    /\ yielded[fetch_op.symbols[1]] # {}
    => /\ fetch_result.kind = "frame"
       /\ fetch_result.frames[fetch_op.symbols[1]] =
              Frame(NetColumns, SortedSeq(yielded[fetch_op.symbols[1]]), TRUE)
       /\ SeqToSet(day_fetches) = TradingDaysIn(fetch_op.start, fetch_op.end)

C18_RowsAroundFailedDay ==
    /\ WalkedForSymbol
    /\ fetch_result.kind = "frame"
    /\ errors = <<2>>
    /\ yielded[fetch_op.symbols[1]] = {1, 3}

\* C19: when no trading day of the range holds a row of the symbol,
\* fetch_for_symbol raises NSEDataNotFoundError with the symbol and the
\* range, after it has walked the whole range, and the cache is as before.
C19_AllDaysFailRaisesNotFound ==
    WalkedForSymbol /\ yielded[fetch_op.symbols[1]] = {} =>
        /\ fetch_result.kind = "NSEDataNotFoundError"
        /\ fetch_result.symbol = fetch_op.symbols[1]
        /\ fetch_result.date_range = <<fetch_op.start, fetch_op.end>>
        /\ SeqToSet(day_fetches) = TradingDaysIn(fetch_op.start, fetch_op.end)
        /\ cache = cache_before

\* C20: a failure on one trading day, of whatever kind, does not stop the
\* walk of fetch_for_symbol or fetch_bulk: every trading day of the range is
\* attempted, and the call raises only if no day held a row.
C20_WalkNeverStopsEarly ==
    fetch_pc = "done" /\ fetch_result.source # "cache" =>
        /\ SeqToSet(day_fetches) = TradingDaysIn(fetch_op.start, fetch_op.end)
        /\ fetch_result.kind \notin {"frame", "map"} =>
               \A x \in Symbols : yielded[x] = {}

\* C21: when a cache operation of fetch_for_symbol or fetch_bulk fails, the
\* call still walks the range and returns the rows the network gave; no
\* NSECacheError leaves the call.
C21_CacheFailureStillReturnsRows ==
    fetch_pc = "done" /\ cache_fault # "none" =>
        /\ fetch_result.kind \in {"frame", "map"}
        /\ fetch_result.source = "network"
        /\ \A x \in SeqToSet(fetch_op.symbols) :
               yielded[x] # {} => fetch_result.frames[x] # NoFrame

\* the attempt ended without rows
NoRows(o) == o.kind \in {"empty", "NSEConnectionError", "NSEParseError", "NSESessionError"}

\* C22: fetch_for_date requests the new-format URL first, and the old-format
\* URL only after the new-format attempt failed with a connection or parse
\* error or gave an empty table; when the new format fails and the old one
\* gives rows, the old-format rows are returned and nothing is raised.
C22_NewFormatFirst ==
    /\ fd_requests \in {<<>>, <<"new">>, <<"new", "old">>}
    /\ Len(fd_requests) = 2 =>
           fd_new.kind \in {"NSEConnectionError", "NSEParseError", "empty"}
    /\ fd_pc = "done" /\ NoRows(fd_new) /\ fd_old.kind = "table" =>
           fd_result = [kind |-> "table", symbols |-> fd_old.symbols,
                        format |-> "old", date |-> fd_date]

C22_OldFormatServed ==
    /\ fd_pc = "done"
    /\ fd_new.kind = "NSEConnectionError"
    /\ fd_old = [kind |-> "table", symbols |-> {"A"}]
    /\ fd_result.format = "old"

\* C23: when neither download gives rows, fetch_for_date raises
\* NSEDataNotFoundError naming the date, and for a weekday that is not in the
\* future it raises no other error, whatever made the downloads fail.
C23_OnlyNotFoundRaised ==
    fd_pc = "done" /\ weekday(fd_date) < 5 /\ fd_date <= Today =>
        /\ fd_result.kind \in {"table", "NSEDataNotFoundError"}
        /\ fd_new.kind # "table" /\ fd_old.kind # "table" =>
               fd_result = DateNotFound(fd_date)

\* C24: for a Saturday, a Sunday or a day after today, fetch_for_date raises
\* NSEDataNotFoundError and requests no URL.
C24_ClosedDayNoRequest ==
    fd_pc # "idle" /\ (weekday(fd_date) >= 5 \/ fd_date > Today) =>
        /\ fd_pc = "done"
        /\ fd_result.kind = "NSEDataNotFoundError"
        /\ fd_requests = <<>>
        /\ fd_new = NotMade /\ fd_old = NotMade

C24_SaturdayRejected ==
    /\ fd_pc = "done"
    /\ weekday(fd_date) = 5
    /\ fd_date <= Today
    /\ fd_result.kind = "NSEDataNotFoundError"

\* the weekdays of the validated range of the call, in ascending order
WeekdaysOfCall == SortedSeq({d \in fetch_op.start..fetch_op.end : weekday(d) < 5})

\* C25: fetch_bulk calls fetch_for_date once for each weekday of the range,
\* in ascending order, and for no weekend day, whatever the number of symbols.
C25_OneFetchPerWeekday ==
    fetch_pc = "done" /\ fetch_op.name = "fetch_bulk" => day_fetches = WeekdaysOfCall

\* C26: the map fetch_bulk returns has an entry for every requested symbol,
\* trimmed and upper-cased; a symbol no snapshot held maps to an empty
\* table; fetch_bulk never raises NSEDataNotFoundError.
C26_BulkMapHasEveryKey ==
    fetch_pc = "done" /\ fetch_op.name = "fetch_bulk" =>
        /\ fetch_result.kind # "NSEDataNotFoundError"
        /\ fetch_result.kind = "map" =>
               /\ fetch_result.keys =
                      {upper(strip(fetch_op.requested[i])) : i \in 1..Len(fetch_op.requested)}
               /\ \A x \in fetch_result.keys :
                      fetch_result.frames[x] = NoFrame <=> yielded[x] = {}

C26_EveryDayFailedEmptyMap ==
    /\ fetch_pc = "done"
    /\ fetch_op.requested = <<" a", "B">>
    /\ fetch_result.kind = "map"
    /\ fetch_result.keys = {"A", "B"}
    /\ day_fetches = <<1, 2, 3>>
    /\ \A x \in Symbols : fetch_result.frames[x] = NoFrame

\* the rows the store holds for a key
OhlcRowsAt(k) == LET At(x) == x.key = k IN CountWhere(ohlc_data, At)

AsRead(v) == IF v.py = "tuple" THEN [v EXCEPT !.py = "list"] ELSE v

\* a get_metadata call is made
MetaRead == cache_ops' = cache_ops + 1 /\ cache_result'.op = "get_metadata"

\* the store holds an entry for the key whose expiry has not passed
Unexpired(key) == \E r \in BagToSet(metadata_cache) : r.key = key /\ r.expiry >= now

\* C28 (as stated): get_metadata(key) returns the value last stored by
\* set_metadata for the key exactly when an entry exists whose expiry has not
\* passed; otherwise it returns None, and no entry for the key is in the
\* store after the read.
C28_GetMetadataReturnsStored ==
    [][MetaRead =>
         IF Unexpired(cache_result'.key)
         THEN /\ cache_result'.data = stored[cache_result'.key]
              /\ metadata_cache' = metadata_cache
         ELSE /\ cache_result'.data = PyNone
              /\ \A r \in BagToSet(metadata_cache') : r.key # cache_result'.key]_vars

\* C28 (amended): the value returned for an unexpired entry is the value
\* last stored as it reads back from JSON (a tuple comes back as a list).
C28_GetMetadataReturnsDecoded ==
    [][MetaRead =>
         IF Unexpired(cache_result'.key)
         THEN /\ cache_result'.data = AsRead(stored[cache_result'.key])
              /\ metadata_cache' = metadata_cache
         ELSE /\ cache_result'.data = PyNone
              /\ \A r \in BagToSet(metadata_cache') : r.key # cache_result'.key]_vars

C28_ExpiredEntryRemovedByRead ==
    /\ cache_result.op = "get_metadata"
    /\ cache_result.data = PyNone
    /\ cache_result.count = 1
    /\ stored["k"] = SomeDict
    /\ metadata_cache = EmptyBag

\* C29: a set_ohlc call that fails, for whatever cause, raises NSECacheError
\* and leaves none of its rows behind: every row of the store, at any later
\* time, was written by a set_ohlc call that succeeded.
C29_FailedSetOhlcLeavesNothing ==
    /\ cache_result.kind \notin {"none", "returned"} => cache_result.kind = "NSECacheError"
    /\ \A r \in BagToSet(ohlc_data) : latest[r.key] = r.close

\* the ways of writing a symbol that differ in letter case only
CaseVariants(x) ==
    CASE x \in {"a", "A"} -> {"a", "A"}
      [] x \in {"b", "B"} -> {"b", "B"}
      [] OTHER -> {x}

\* C30: clear_symbol(S) leaves no row that get_ohlc finds for S, in any
\* letter case, over any range, and changes no row of another symbol, no
\* index row and no metadata entry.
C30_ClearSymbolRemovesOnlyItsRows ==
    [][cache_ops' = cache_ops + 1 /\ cache_result'.op = "clear_symbol" =>
         /\ \A x \in CaseVariants(cache_result'.symbol), d \in CacheDays, e \in CacheDays :
                get_ohlc_rows(ohlc_data', x, d, e) = <<>>
         /\ \A r \in BagToSet(ohlc_data) \cup BagToSet(ohlc_data') :
                r.key[1] \notin CaseVariants(cache_result'.symbol) =>
                    CopiesIn(r, ohlc_data') = CopiesIn(r, ohlc_data)
         /\ index_data' = index_data
         /\ metadata_cache' = metadata_cache]_vars

C30_ClearedAmongOthers ==
    /\ cache_result.op = "clear_symbol"
    /\ cache_result.symbol = "a"
    /\ cache_result.count >= 1
    /\ \E r \in BagToSet(ohlc_data) : r.key[1] = "B"
    /\ index_data # EmptyBag
    /\ metadata_cache # EmptyBag

\* the days of [start, end] for which the store holds a row of the symbol,
\* written in any letter case
DaysHeld(S, start, end) ==
    {d \in CacheDays : /\ start <= d /\ d <= end
                       /\ \E k \in OhlcKeys : /\ k[1] \in CaseVariants(S) /\ k[2] = d
                                              /\ latest[k] # NoValue}

\* the value the store holds for the symbol on a day
ValueHeld(S, d) ==
    latest[CHOOSE k \in OhlcKeys : k[1] \in CaseVariants(S) /\ k[2] = d /\ latest[k] # NoValue]

\* C31: get_ohlc(S, start, end) returns exactly the cached rows of S, S
\* matched without regard to case, whose date lies in [start, end], each
\* under its date and in ascending date order, and None when there is none.
C31_GetOhlcReturnsRowsInRange ==
    cache_result.op = "get_ohlc" =>
        LET days == DaysHeld(cache_result.symbol, cache_result.range[1], cache_result.range[2])
            rows == cache_result.data.items
        IN IF days = {}
           THEN cache_result.data = PyNone
           ELSE /\ cache_result.data.py = "DataFrame"
                /\ Len(rows) = Cardinality(days)
                /\ \A i \in 1..Len(rows) :
                       /\ rows[i].date \in days
                       /\ rows[i].close = ValueHeld(cache_result.symbol, rows[i].date)
                /\ \A i \in 1..(Len(rows) - 1) : rows[i].date < rows[i + 1].date

\* C32: a pair (s, e) returned by validate_date_range with allow_future
\* false satisfies s <= e, e <= today and s >= 1995-01-01, and a start date
\* in the future raises NSEInvalidDateError.
C32_ValidatedRangeOrdered ==
    /\ vd_result.kind = "returned" =>
           /\ vd_result.start <= vd_result.end
           /\ vd_result.end <= Today
           /\ vd_result.start >= MinDate
    /\ vd_calls > 0 /\ vd_start > Today /\ vd_end > Today =>
           vd_result.kind = "NSEInvalidDateError"

\* C33: every call ends.  Failures of every kind are counted by the one
\* retry counter, so that at the head of the loop it equals the attempts
\* made, and the call returns or raises in the end.
C33_CallEnds ==
    /\ [](\A t \in Threads : pc[t] = "attempt" => retry_count[t] = sends[t])
    /\ <>(pc[Main] = "done")

C33_GaveUpAfterMixedFailures ==
    /\ pc[Main] = "done"
    /\ result[Main].kind = "NSEConnectionError"
    /\ sends[Main] = MAX_RETRIES + 1
    /\ hs_failed[Main]
    /\ prev[Main].kind = "response"
    /\ last_exception[Main] = "Timeout"

\* C34: while the call sleeps after a timeout or transport exception, the
\* sleep is INITIAL_RETRY_DELAY * RETRY_BACKOFF_FACTOR^n, n being the attempts
\* of the call that have failed so far, whatever their kind; it is longer
\* than the sleep one failure earlier would have got.
C34_BackoffGrowsWithFailures ==
    \A t \in Threads :
        pc[t] = "sleep_bo" =>
            /\ Len(gap[t].sleeps) = 1
            /\ gap[t].sleeps[1] * Pow(BACKOFF_DEN, sends[t])
                   = INITIAL_RETRY_DELAY * Pow(BACKOFF_NUM, sends[t])
            /\ gap[t].sleeps[1] * Pow(BACKOFF_DEN, sends[t] - 1)
                   > INITIAL_RETRY_DELAY * Pow(BACKOFF_NUM, sends[t] - 1)
            /\ wake[t] - gap[t].sleeps[1]
                   \in {sent_at[t] + ReqTime, sent_at[t] + TimeoutOf(method[t])}

C34_ThirdFailureAfterAuthFailure ==
    /\ pc[Main] = "sleep_bo"
    /\ sends[Main] = 3
    /\ hs_failed[Main]
    /\ gap[Main].sleeps = <<33750>>

\* C35: when, as fetch_bulk is called, the cache holds a row of every
\* requested symbol for every trading day of the range, the call fetches no
\* snapshot.
C35_BulkServedFromCache ==
    /\ fetch_op.name = "fetch_bulk"
    /\ \A x \in SeqToSet(fetch_op.symbols), d \in TradingDaysIn(fetch_op.start, fetch_op.end) :
           <<x, d>> \in cache_before
    => day_fetches = <<>>

\* C36: get_metadata never removes an unexpired entry: every entry whose
\* expiry has not passed when a get_metadata call ends is still in the store
\* after it.
C36_ReadKeepsUnexpired ==
    [][gm_pc = "read" /\ gm_pc' = "done" =>
         \A r \in BagToSet(metadata_cache) :
             r.expiry >= now => CopiesIn(r, metadata_cache') = CopiesIn(r, metadata_cache)]_vars

\* C37: every row fetch_for_symbol returns comes from a snapshot row whose
\* series is in the series argument of the call, whether the call was served
\* from the network or from the cache.
C37_RowsOfRequestedSeries ==
    sr_result.kind = "frame" =>
        \A i \in 1..Len(sr_result.rows) : sr_result.rows[i].series \in sr_result.series

\* C38: in the map fetch_bulk returns, the table of each symbol holds the
\* row of every day whose snapshot held the symbol exactly once, in ascending
\* order, also when the list names a symbol more than once.
C38_BulkRowsOnce ==
    fetch_pc = "done" /\ fetch_op.name = "fetch_bulk" /\ fetch_result.kind = "map" =>
        \A x \in fetch_result.keys :
            fetch_result.frames[x] =
                IF yielded[x] = {} THEN NoFrame
                ELSE Frame(NetColumns, SortedSeq(yielded[x]), TRUE)

\* get_instance() returns an object to the thread
Receives(t) == InGetInstance(t) /\ pc'[t] = "idle" /\ got_log' # got_log

\* C39: while no reset has run, concurrent first calls of get_instance()
\* initialise the session once: one requests session is created and one
\* initial handshake is performed for the object, and no thread is handed the
\* object before its requests session exists.
C39_InitialisedOnce ==
    /\ [](resets = 0 => \A o \in Objects : made[o] <= 1 /\ shaken[o] <= 1)
    /\ [][resets = 0 =>
            \A t \in Threads :
                Receives(t) /\ ref[t] # NoObject => obj_session'[ref[t]] = "open"]_vars

\* the singleton was constructed with a handshake that failed
FailedBuild == instance # NoObject /\ ~obj_hs[instance]

\* C40: when the initial handshake fails during construction, get_instance()
\* raises NSESessionError and the object stays registered, initialised, with
\* no cookies and no handshake time; every later get_instance() returns that
\* object and none runs __init__ again or raises; and the get made through
\* the object sends no request before a handshake of its own has succeeded.
C40_FailedBuildKeepsInstance ==
    /\ [](FailedBuild =>
            /\ instance = 1
            /\ obj_init[instance] = "true"
            /\ made[instance] = 1 /\ shaken[instance] = 1
            /\ \A a \in got_log : a[2] = instance
            /\ \A t \in Threads :
                   pc[t] \notin {"new_lock", "new_mark", "init_fields",
                                 "init_create", "init_hs"}
            /\ calls[Main] = 0 =>
                   /\ cookies = <<>>
                   /\ session_created_time = 0
                   /\ result[Main].kind = "NSESessionError"
            /\ sends[Main] > 0 =>
                   /\ cookies # <<>>
                   /\ session_created_time > StartTime + ReqTime)
    /\ [][FailedBuild =>
            /\ \A t \in Threads :
                   pc[t] = "init_check" /\ pc'[t] # "init_check" =>
                       /\ pc'[t] = "idle"
                       /\ ref[t] = instance
                       /\ <<resets, instance>> \in got_log'
            /\ sends'[Main] # sends[Main] =>
                   /\ session_created_time # 0
                   /\ session_created_time <= sent_at'[Main]
                   /\ sends[Main] = 0 => gap[Main].hs = 1]_vars

\* after a failed construction another get_instance() has returned the
\* object, and the get has shaken hands and been answered 200
C40_GetAfterFailedBuild ==
    /\ FailedBuild
    /\ got_log = {<<0, 1>>}
    /\ pc[Main] = "done"
    /\ result[Main].kind = "response"
    /\ session_created_time = StartTime + 2 * ReqTime
    /\ sends[Main] = 1

====
